---- MODULE Spec2Model ----
(***************************************************************************)
(* A model of the Augment secret detector (src/augment_secret_detector.py):*)
(* one AugmentSecretDetector object and the calls made on it, and of the   *)
(* tools beside it: the version manager, the editor updater and the        *)
(* handlers of the command line.                                           *)
(*   Spec        one run_detection call on a healthy host                  *)
(*   SpecFault   the same run with failing samplers, interrupts, a failing *)
(*               report file and the exit status of both entry points      *)
(*   SpecPass    one analyze_processes call on any process table           *)
(*   SpecReplay  the report assembler called repeatedly on injected        *)
(*               results, with the report files it writes                  *)
(*   SpecSteady  the run on a host whose process table stays the same      *)
(*   SpecVersion backup, rollback, lock and unlock on one extension        *)
(*   SpecUpdater one update_vscode call, command by command                *)
(*   SpecCli     one augment-fix version or vscode invocation              *)
(* Time is counted in tenths of a second; floating-point values are exact  *)
(* rationals <<numerator, denominator>> in lowest terms.                   *)
(***************************************************************************)
EXTENDS Integers, Sequences, FiniteSets, TLC

VARIABLES
    pc,                  \* position of the run inside run_detection
    monitoring_duration, \* self.monitoring_duration (seconds)
    cpu_threshold,       \* self.cpu_threshold (percent)
    disk_threshold,      \* self.disk_threshold (MB per 2 s window)
    network_threshold,   \* self.network_threshold (MB per 1 s window)
    fs,                  \* the extension-storage roots of self.config_dirs
    augment_dirs,        \* self.augment_dirs
    clock,               \* time.time() - start_time of monitor_cpu_usage
    cpu_readings,        \* cpu_readings of monitor_cpu_usage
    passes,              \* every analyze_processes call so far and its result
    cpu_analysis,        \* the dict monitor_cpu_usage returned
    processes,           \* processes of run_detection
    io_start, io_end,    \* the two disk_io_counters() snapshots
    disk_deltas,         \* the logged (read_delta_mb, write_delta_mb), if any
    net_start, net_end,  \* the two net_io_counters() snapshots
    net_deltas,          \* the logged (sent_delta_mb, recv_delta_mb), if any
    secrets_indicators,  \* secrets_indicators of detect_secrets_activity
    report,              \* the dict generate_report returned
    events,              \* history: phases entered and counters sampled
    cpu_count,           \* what psutil.cpu_count() returns on this host
    is_root,             \* os.getuid() == 0
    scan_log,            \* what find_augment_extensions logged
    failure,             \* the exception that ended the run, if any
    exit_code,           \* exit status of the process, per entry point
    reports,             \* every report generate_report returned so far
    pass_table,          \* the processes of a host whose table stays the
                         \* same (<<>> in Spec: they come and go)
    pass_outcome,        \* SpecPass: how the analyze_processes call ended
    report_files,        \* the report files of the working directory
    vm,                  \* the AugmentVersionManager and the files it keeps
    up,                  \* the VSCodeUpdater and the commands it has run
    cli                  \* one augment-fix invocation and its exit status

vars == <<pc, monitoring_duration, cpu_threshold, disk_threshold,
          network_threshold, fs, augment_dirs, clock, cpu_readings, passes,
          cpu_analysis, processes, io_start, io_end, disk_deltas, net_start,
          net_end, net_deltas, secrets_indicators, report, events,
          cpu_count, is_root, scan_log, failure, exit_code, reports,
          pass_table, pass_outcome, report_files, vm, up, cli>>

\* the other tools of the package: a detection run never touches them
tools == <<vm, up, cli>>

\* what no step of a run changes: the host, the table of SpecPass and the
\* other tools
host == <<cpu_count, is_root, pass_table, pass_outcome, tools>>

\* no version manager, updater or command line is part of the run
ToolsUnused == vm = <<>> /\ up = <<>> /\ cli = <<>>

----------------------------------------------------------------------------
(* Bounds of the model *)

\* largest --duration tried
MaxDuration == 3
\* largest time, in tenths of a second, one correlator pass spends
\* enumerating the process table on top of its fixed sleep
MaxEnumDs == 5
\* calls of the report assembler on one detector
MaxCalls == 2
\* --duration of the runs in which samplers fail or the user interrupts
MaxFaultDuration == 2
\* processes listed when one analyze_processes call is examined alone
MaxTableLen == 2
\* logical cores of the hosts on which such a call is examined
MaxCores == 8
\* SpecSteady: the longest monitoring_duration tried (seconds)
MaxSteadyDuration == 2
\* SpecVersion: the calls made on one version manager, and the seconds
\* that pass meanwhile
MaxVmCalls == 2
MaxVmSeconds == 1

(* Program constants *)

DefaultCpuThreshold == 80
DefaultDiskThreshold == 50
DefaultNetworkThreshold == 10
\* the clock ticks every 0.1 s, the shortest wait of the program
TicksPerSecond == 10
\* psutil.cpu_percent(interval=1) blocks for one second
CpuIntervalSeconds == 1
\* time.sleep(0.1) between the two passes of analyze_processes
PrimeSleepDs == 1
\* bytes / 1024 / 1024
Kilo == 1024
\* len(processes) > 5
ManyProcesses == 5
\* normalized_threshold = 80 / cpu_cores
CpuBudgetPercent == 80

----------------------------------------------------------------------------
(* Exact arithmetic for the floats of the program *)

RECURSIVE GCD(_, _)
GCD(a, b) == IF b = 0 THEN a ELSE GCD(b, a % b)

Abs(n) == IF n < 0 THEN -n ELSE n

\* numerator n over denominator d > 0, in lowest terms
Rat(n, d) ==
    LET g == GCD(Abs(n), d) IN <<n \div g, d \div g>>

FromInt(n) == <<n, 1>>

\* Python's  r / k  for an integer k > 0
RatDiv(r, k) == Rat(r[1], r[2] * k)

\* Python's  r > t  for an integer (or integral float) t
RatGT(r, t) == r[1] > t * r[2]

\* Python's  x / 1024 / 1024
ToMB(x) == RatDiv(RatDiv(FromInt(x), Kilo), Kilo)

MB == Kilo * Kilo

----------------------------------------------------------------------------
(* Strings are sequences of one-character strings *)

UpperCase ==
    <<"A", "B", "C", "D", "E", "F", "G", "H", "I", "J", "K", "L", "M", "N",
      "O", "P", "Q", "R", "S", "T", "U", "V", "W", "X", "Y", "Z">>
LowerCase ==
    <<"a", "b", "c", "d", "e", "f", "g", "h", "i", "j", "k", "l", "m", "n",
      "o", "p", "q", "r", "s", "t", "u", "v", "w", "x", "y", "z">>

\* str.lower() on one character
LowerChar(c) ==
    IF \E i \in 1..Len(UpperCase) : UpperCase[i] = c
    THEN LowerCase[CHOOSE i \in 1..Len(UpperCase) : UpperCase[i] = c]
    ELSE c

\* str.lower()
Lower(s) == [i \in 1..Len(s) |-> LowerChar(s[i])]

\* Python's  k in s  for strings (substring test)
Contains(s, k) ==
    \E i \in 1..(Len(s) - Len(k) + 1) : SubSeq(s, i, i + Len(k) - 1) = k

S_augment == <<"a", "u", "g", "m", "e", "n", "t">>
S_Augment == <<"A", "u", "g", "m", "e", "n", "t">>
S_AUGMENT == <<"A", "U", "G", "M", "E", "N", "T">>
S_vscode == <<"v", "s", "c", "o", "d", "e">>
S_code == <<"c", "o", "d", "e">>
S_code_insiders == <<"c", "o", "d", "e", "-", "i", "n", "s", "i", "d", "e", "r", "s">>
S_Code == <<"C", "o", "d", "e">>
S_firefox == <<"f", "i", "r", "e", "f", "o", "x">>
S_augment_node == <<"a", "u", "g", "m", "e", "n", "t", "-", "n", "o", "d", "e">>
S_pub_augment == <<"p", "u", "b", ".", "a", "u", "g", "m", "e", "n", "t">>
S_augment_log == <<"a", "u", "g", "m", "e", "n", "t", ".", "l", "o", "g">>
S_python == <<"p", "y", "t", "h", "o", "n">>
S_Augment_vscode_augment ==
    <<"A", "u", "g", "m", "e", "n", "t", ".", "v", "s", "c", "o", "d", "e",
      "-", "a", "u", "g", "m", "e", "n", "t">>

RECURSIVE Flatten(_)
\* the concatenation of a sequence of sequences
Flatten(ss) == IF ss = <<>> THEN <<>> ELSE Head(ss) \o Flatten(Tail(ss))

----------------------------------------------------------------------------
(* find_augment_extensions *)

augment_patterns == <<S_augment, S_Augment, S_AUGMENT>>

\* config_dir.glob("*<word>*"): the entries of the directory, in listing
\* order, whose name contains the word (case-sensitively)
Glob(config_dir, word) ==
    SelectSeq(config_dir.entries, LAMBDA e : Contains(e.name, word))

\* the directories one pattern adds to self.augment_dirs
PatternMatches(config_dir, word) ==
    SelectSeq(Glob(config_dir, word), LAMBDA e : e.is_dir)

\* what the scan of one root appends: nothing when the root does not exist
ScanDir(config_dir) ==
    IF ~config_dir.exists
    THEN <<>>
    ELSE Flatten([p \in 1..Len(augment_patterns) |->
                    LET found == PatternMatches(config_dir, augment_patterns[p])
                    IN  [i \in 1..Len(found) |->
                            [root |-> config_dir.path, name |-> found[i].name]]])

\* return where continue is meant: the scan ends at the first root that
\* does not exist
FindUntilMissing(config_dirs, before) ==
    LET missing == {d \in 1..Len(config_dirs) : ~config_dirs[d].exists}
        last == IF missing = {} THEN Len(config_dirs)
                ELSE (CHOOSE d \in missing : \A o \in missing : d <= o) - 1
    IN  before \o Flatten([d \in 1..last |-> ScanDir(config_dirs[d])])

\* self.augment_dirs after find_augment_extensions
FindAugmentExtensions(config_dirs, before) ==
    before \o Flatten([d \in 1..Len(config_dirs) |-> ScanDir(config_dirs[d])])

\* the lines one root adds to the log: a warning for a root that does not
\* exist, else the directory and every extension found in it
ScanDirLog(config_dir) ==
    IF ~config_dir.exists
    THEN <<[line |-> "directory_not_found", what |-> config_dir.path]>>
    ELSE <<[line |-> "scanning_directory", what |-> config_dir.path]>>
         \o [i \in 1..Len(ScanDir(config_dir)) |->
                [line |-> "found_extension",
                 what |-> ScanDir(config_dir)[i].root]]

\* what one find_augment_extensions call logs; the last test is made on
\* self.augment_dirs, which holds the finds of earlier calls too
ScanLog(config_dirs, before) ==
    Flatten([d \in 1..Len(config_dirs) |-> ScanDirLog(config_dirs[d])])
    \o (IF FindAugmentExtensions(config_dirs, before) = <<>>
        THEN <<[line |-> "no_extensions_found", what |-> ""]>>
        ELSE <<>>)

Entry(name, is_dir) == [name |-> name, is_dir |-> is_dir]
Root(path, exists, entries) ==
    [path |-> path, exists |-> exists, entries |-> entries]

\* the file systems tried: self.config_dirs with what each root holds; in
\* the second a custom root was inserted in front of the two default ones
FileSystems ==
    { <<Root("vscode", FALSE, <<>>), Root("vscode-insiders", FALSE, <<>>)>>,
      <<Root("custom", TRUE, <<Entry(S_python, TRUE)>>),
        Root("vscode", FALSE, <<>>),
        Root("vscode-insiders", TRUE, <<Entry(S_pub_augment, TRUE),
                                        Entry(S_augment_log, FALSE)>>)>> }

\* the file systems of the replayed runs: in the third the extension's
\* directory name matches two of the three patterns
ReplayFileSystems ==
    FileSystems
    \cup { <<Root("vscode", TRUE, <<Entry(S_Augment_vscode_augment, TRUE)>>),
             Root("vscode-insiders", FALSE, <<>>)>> }

----------------------------------------------------------------------------
(* analyze_processes *)

keywords == <<S_augment, S_vscode, S_code>>

\* any(keyword in proc_name for keyword in [...]) with proc_name lowered
MatchesKeyword(name) ==
    \E k \in 1..Len(keywords) : Contains(Lower(name), keywords[k])

\* process_data of one process
ProcessData(proc) ==
    [pid |-> proc.pid, name |-> proc.name, cpu_percent |-> proc.cpu,
     memory_mb |-> ToMB(proc.rss)]

\* the first loop: a process that ends while it is primed ("at_prime") is
\* skipped there and is no longer listed by the second process_iter()
SecondEnumeration(table) ==
    SelectSeq(table, LAMBDA proc : proc.gone # "at_prime")

\* without the except clause's continue: a process is kept although a
\* call on it raised
AppendedThoughGone(proc) == MatchesKeyword(proc.name)

\* the keyword test without .lower()
AppendedCaseSensitive(proc) ==
    /\ proc.gone # "at_name"
    /\ \E k \in 1..Len(keywords) : Contains(proc.name, keywords[k])
    /\ proc.gone \notin {"at_cpu", "at_memory", "at_name_again"}

\* the process reaches augment_processes.append: its name matches and no
\* call on it raised NoSuchProcess or AccessDenied before the append
\* (proc.name(), proc.cpu_percent(), proc.memory_info(), proc.name() again)
Appended(proc) ==
    /\ proc.gone # "at_name"
    /\ MatchesKeyword(proc.name)
    /\ proc.gone \notin {"at_cpu", "at_memory", "at_name_again"}

\* without the keyword test and the except clause: every process listed
\* is reported
AnalyzeProcessesUnfiltered(table) ==
    [i \in 1..Len(table) |-> ProcessData(table[i])]

\* the list analyze_processes returns for the second enumeration `table`
AnalyzeProcesses(table) ==
    LET kept == SelectSeq(table, Appended)
    IN  [i \in 1..Len(kept) |-> ProcessData(kept[i])]

\* psutil.cpu_count() returns None when the number of logical cores is
\* undetermined; the model writes None as 0 cores
NoneCores == 0

\* normalized_threshold = 80 / cpu_cores, for a number of cores
NormalizedThreshold(cpu_cores) == Rat(CpuBudgetPercent, cpu_cores)

\* cpu_usage > normalized_threshold
AboveNormalized(cpu_usage, cpu_cores) ==
    cpu_usage * NormalizedThreshold(cpu_cores)[2]
        > NormalizedThreshold(cpu_cores)[1]

\* 80 / cpu_cores raises TypeError for None, at the first appended process;
\* the except clause does not name it, so it leaves analyze_processes
PassRaises(table, cpu_cores) ==
    /\ cpu_cores = NoneCores
    /\ \E i \in 1..Len(table) : Appended(table[i])

\* the pids of the "High CPU process" lines a pass logs: the line is built
\* with proc.name(), so a process that ends just then ("at_log") gets none
HighCpuLogged(table, cpu_cores) ==
    LET high == SelectSeq(table, LAMBDA proc :
                    /\ Appended(proc)
                    /\ AboveNormalized(proc.cpu, cpu_cores)
                    /\ proc.gone # "at_log")
    IN  [i \in 1..Len(high) |-> high[i].pid]

\* one analyze_processes call on the processes `first` the first
\* process_iter() lists, on a host of cpu_cores cores
AnalyzePass(first, cpu_cores) ==
    IF PassRaises(SecondEnumeration(first), cpu_cores)
    THEN [raised |-> TRUE, result |-> <<>>, high_cpu |-> <<>>]
    ELSE [raised |-> FALSE,
          result |-> AnalyzeProcesses(SecondEnumeration(first)),
          high_cpu |-> HighCpuLogged(SecondEnumeration(first), cpu_cores)]

\* no analyze_processes call has ended
NoOutcome == [raised |-> FALSE, result |-> <<>>, high_cpu |-> <<>>]

\* the claimed behaviour: every pass appends to the list of the run
ProcessesAccumulated(held, result, in_loop) == held \o result

\* `processes` of run_detection after a pass: the loop of monitor_cpu_usage
\* drops the value analyze_processes returns, run_detection assigns it
ProcessesAfterPass(held, result, in_loop) ==
    IF in_loop THEN held ELSE result

Proc(pid, name, cpu, rss, gone) ==
    [pid |-> pid, name |-> name, cpu |-> cpu, rss |-> rss, gone |-> gone]

\* the process tables an enumeration may yield
ProcTables ==
    { <<Proc(12345, S_code_insiders, 85, 256 * MB, "no"),
        Proc(67890, S_firefox, 5, 128 * MB, "no"),
        Proc(777, S_augment_node, 40, 64 * MB, "at_cpu")>>,
      <<Proc(67890, S_firefox, 5, 128 * MB, "no"),
        Proc(12345, S_Code, 3, 32 * MB, "no"),
        Proc(888, S_vscode, 1, MB, "at_name")>> }

\* what an enumeration of the run shows: any of ProcTables on a host whose
\* processes come and go, the one table of a host where they stay
TablesShown(steady) == IF steady = <<>> THEN ProcTables ELSE {steady}

\* the tables of the hosts whose processes stay the same: no editor runs,
\* the editor's helper ends before it is read, or the editor idles
SteadyTables ==
    { <<Proc(67890, S_firefox, 5, 128 * MB, "no")>>,
      <<Proc(67890, S_firefox, 5, 128 * MB, "no"),
        Proc(777, S_augment_node, 40, 64 * MB, "at_cpu")>>,
      <<Proc(67890, S_firefox, 5, 128 * MB, "no"),
        Proc(12345, S_Code, 3, 32 * MB, "no")>> }

\* the processes a host may run: each matching or not, busy or idle, and
\* ending (or denying access) at one point of the pass or not at all
ProcPool ==
    { Proc(12345, S_code_insiders, 85, 256 * MB, "no"),
      Proc(67890, S_firefox, 5, 128 * MB, "no"),
      Proc(777, S_augment_node, 40, 64 * MB, "at_cpu"),
      Proc(888, S_vscode, 1, MB, "at_name"),
      Proc(12346, S_Code, 10, 32 * MB, "no"),
      Proc(999, S_AUGMENT, 11, 3 * MB, "at_memory"),
      Proc(1000, S_code, 27, 2 * MB, "at_name_again"),
      Proc(1001, S_augment_node, 41, 64 * MB, "at_log"),
      Proc(1002, S_code, 90, MB, "at_prime") }

\* what the first process_iter() may list: up to MaxTableLen processes of
\* the pool, each pid once
PassTables ==
    UNION { { t \in [1..n -> ProcPool] :
                \A i, j \in 1..n : t[i].pid = t[j].pid => i = j } :
            n \in 0..MaxTableLen }

\* what psutil.cpu_count() may return: None, or 1 to MaxCores cores
PassCores == {NoneCores} \cup (1..MaxCores)

\* the time a pass takes beyond its fixed sleep (tenths of a second)
EnumCosts == {0, MaxEnumDs}

----------------------------------------------------------------------------
(* monitor_cpu_usage *)

\* the percentages psutil.cpu_percent may return
CpuValues == {70, 80, 90}

Durations == 0..MaxDuration

RECURSIVE Sum(_)
Sum(s) == IF s = <<>> THEN 0 ELSE Head(s) + Sum(Tail(s))

RECURSIVE MinOf(_)
\* min() where max() is meant
MinOf(s) ==
    IF Len(s) = 1 THEN Head(s)
    ELSE LET m == MinOf(Tail(s)) IN IF Head(s) <= m THEN Head(s) ELSE m

RECURSIVE Max(_)
\* Python's max() of a non-empty list
Max(s) ==
    IF Len(s) = 1 THEN Head(s)
    ELSE LET m == Max(Tail(s)) IN IF Head(s) >= m THEN Head(s) ELSE m

\* >= where > is meant
IsHighOrEqual(cpu_percent, threshold) == cpu_percent >= threshold

\* cpu_percent > self.cpu_threshold
IsHigh(cpu_percent, threshold) == cpu_percent > threshold

\* <= where < is meant: one iteration too many
LoopContinuesInclusive(elapsed, duration) ==
    elapsed <= duration * TicksPerSecond

\* the while condition: time.time() - start_time < self.monitoring_duration
LoopContinues(elapsed, duration) == elapsed < duration * TicksPerSecond

\* the dict monitor_cpu_usage returns for non-empty readings
CpuAnalysis(readings, threshold) ==
    [average_cpu |-> RatDiv(FromInt(Sum(readings)), Len(readings)),
     peak_cpu |-> Max(readings),
     readings |-> readings,
     high_usage_detected |-> IsHigh(Max(readings), threshold)]

NoAnalysis ==
    [average_cpu |-> FromInt(0), peak_cpu |-> 0, readings |-> <<>>,
     high_usage_detected |-> FALSE]

----------------------------------------------------------------------------
(* detect_secrets_activity *)

\* psutil.disk_io_counters(): a snapshot, or None
DiskSample(r, w) == [avail |-> TRUE, read_bytes |-> r, write_bytes |-> w]
NoDisk == [avail |-> FALSE, read_bytes |-> 0, write_bytes |-> 0]

\* psutil.net_io_counters(): a snapshot, or None
NetSample(snt, rcv) == [avail |-> TRUE, bytes_sent |-> snt, bytes_recv |-> rcv]
NoNet == [avail |-> FALSE, bytes_sent |-> 0, bytes_recv |-> 0]

DiskStarts == {NoDisk, DiskSample(0, 0), DiskSample(50 * MB, 50 * MB)}
DiskEnds ==
    {NoDisk, DiskSample(0, 0), DiskSample(100 * MB, 50 * MB),
     DiskSample(50 * MB, 50 * MB + 1)}

NetStarts == {NoNet, NetSample(0, 0), NetSample(10 * MB, 10 * MB)}
NetEnds ==
    {NoNet, NetSample(0, 0), NetSample(20 * MB, 15 * MB),
     NetSample(10 * MB, 10 * MB + 1)}

\* the delta of a 2-second window turned into a per-second rate
DeltaMBPerSecond(end_bytes, start_bytes) ==
    RatDiv(ToMB(end_bytes - start_bytes), 2)

\* (end_bytes - start_bytes) / 1024 / 1024
DeltaMB(end_bytes, start_bytes) == ToMB(end_bytes - start_bytes)

\* >= where > is meant
ExceedsOrEqual(delta_mb, threshold) ==
    delta_mb[1] >= threshold * delta_mb[2]

\* delta_mb > threshold
Exceeds(delta_mb, threshold) == RatGT(delta_mb, threshold)

\* without the  if io_start and io_end  test: a missing snapshot counts
\* as one of zero bytes
DiskDeltasUnguarded(s, e) ==
    <<[read_delta_mb |-> DeltaMB(e.read_bytes, s.read_bytes),
       write_delta_mb |-> DeltaMB(e.write_bytes, s.write_bytes)]>>

\* the deltas logged for the disk window: none unless  io_start and io_end
DiskDeltas(s, e) ==
    IF s.avail /\ e.avail
    THEN <<[read_delta_mb |-> DeltaMB(e.read_bytes, s.read_bytes),
            write_delta_mb |-> DeltaMB(e.write_bytes, s.write_bytes)]>>
    ELSE <<>>

\* `and` where `or` is meant
DiskIndicatorsBoth(deltas, threshold) ==
    IF /\ deltas # <<>>
       /\ RatGT(deltas[1].read_delta_mb, threshold)
       /\ RatGT(deltas[1].write_delta_mb, threshold)
    THEN <<"high_disk_io">>
    ELSE <<>>

\* what the disk window appends to secrets_indicators
DiskIndicators(deltas, threshold) ==
    IF /\ deltas # <<>>
       /\ \/ Exceeds(deltas[1].read_delta_mb, threshold)
          \/ Exceeds(deltas[1].write_delta_mb, threshold)
    THEN <<"high_disk_io">>
    ELSE <<>>

\* the deltas logged for the network window: none unless  net_start and net_end
NetDeltas(s, e) ==
    IF s.avail /\ e.avail
    THEN <<[sent_delta_mb |-> DeltaMB(e.bytes_sent, s.bytes_sent),
            recv_delta_mb |-> DeltaMB(e.bytes_recv, s.bytes_recv)]>>
    ELSE <<>>

\* the received bytes are not looked at
NetIndicatorsSentOnly(deltas, threshold) ==
    IF /\ deltas # <<>>
       /\ RatGT(deltas[1].sent_delta_mb, threshold)
    THEN <<"high_network_io">>
    ELSE <<>>

\* what the network window appends to secrets_indicators
NetIndicators(deltas, threshold) ==
    IF /\ deltas # <<>>
       /\ \/ Exceeds(deltas[1].sent_delta_mb, threshold)
          \/ Exceeds(deltas[1].recv_delta_mb, threshold)
    THEN <<"high_network_io">>
    ELSE <<>>

----------------------------------------------------------------------------
(* generate_report *)

InSeq(x, s) == \E i \in 1..Len(s) : s[i] = x

\* >= where > is meant: five processes already ask for a cleanup
RecommendationsFromFive(analysis, procs, indicators) ==
    (IF analysis.high_usage_detected THEN <<"cpu_rollback">> ELSE <<>>)
    \o (IF InSeq("high_disk_io", indicators) THEN <<"check_disk_io">> ELSE <<>>)
    \o (IF InSeq("high_network_io", indicators)
        THEN <<"monitor_network">> ELSE <<>>)
    \o (IF Len(procs) >= ManyProcesses THEN <<"process_cleanup">> ELSE <<>>)

\* report["recommendations"]: four tests, each appending one sentence
Recommendations(analysis, procs, indicators) ==
    (IF analysis.high_usage_detected THEN <<"cpu_rollback">> ELSE <<>>)
    \o (IF InSeq("high_disk_io", indicators) THEN <<"check_disk_io">> ELSE <<>>)
    \o (IF InSeq("high_network_io", indicators)
        THEN <<"monitor_network">> ELSE <<>>)
    \o (IF Len(procs) > ManyProcesses THEN <<"process_cleanup">> ELSE <<>>)

\* the dict generate_report builds, without its timestamp
GenerateReport(analysis, procs, indicators, dirs) ==
    [cpu_analysis |-> analysis,
     augment_processes |-> procs,
     secrets_indicators |-> indicators,
     augment_extensions |-> dirs,
     recommendations |-> Recommendations(analysis, procs, indicators)]

NoReport == GenerateReport(NoAnalysis, <<>>, <<>>, <<>>)

\* time.sleep(2) and time.sleep(1) of detect_secrets_activity
DiskWindowSeconds == 2
NetWindowSeconds == 1

\* the time from the end of the sampling loop to generate_report: the
\* sleeps of the final pass and of the two windows
AfterSamplingDs ==
    PrimeSleepDs + (DiskWindowSeconds + NetWindowSeconds) * TicksPerSecond

\* report_file = f"augment_secret_report_{int(time.time())}.json" at the
\* time t (tenths of a second): the name holds the whole seconds only
ReportFile(t) == t \div TicksPerSecond

\* with open(report_file, 'w') as f: json.dump(report, f): a file of that
\* name is replaced; `run` tells whose report the file holds
WriteReport(files, t, serial) ==
    {f \in files : f.name # ReportFile(t)}
    \cup {[name |-> ReportFile(t), run |-> serial]}

\* results handed to the assembler in place of the samplers' own
InjectedAnalyses ==
    {CpuAnalysis(<<70>>, DefaultCpuThreshold),
     CpuAnalysis(<<70, 80>>, DefaultCpuThreshold),
     CpuAnalysis(<<90, 70>>, DefaultCpuThreshold)}
InjectedProcesses ==
    {[i \in 1..n |-> ProcessData(Proc(i, S_code, i, i * MB, "no"))] :
        n \in {0, 1, ManyProcesses, ManyProcesses + 1}}
InjectedIndicators ==
    {<<>>, <<"high_disk_io">>, <<"high_network_io">>,
     <<"high_disk_io", "high_network_io">>}

----------------------------------------------------------------------------
(* run_detection: the order of its calls *)

\* the report is generated before the disk and network windows are run
StepAfterReportFirst(step) ==
    CASE step = "find_augment_extensions" -> "monitor_cpu_usage"
      [] step = "monitor_cpu_usage" -> "analyze_processes"
      [] step = "analyze_processes" -> "generate_report"
      [] step = "generate_report" -> "detect_secrets_activity"
      [] step = "detect_secrets_activity" -> "return"

StepAfter(step) ==
    CASE step = "find_augment_extensions" -> "monitor_cpu_usage"
      [] step = "monitor_cpu_usage" -> "analyze_processes"
      [] step = "analyze_processes" -> "detect_secrets_activity"
      [] step = "detect_secrets_activity" -> "generate_report"
      [] step = "generate_report" -> "return"

\* the position at which a step of run_detection starts
PcOf(step) ==
    CASE step = "find_augment_extensions" -> "scan"
      [] step = "monitor_cpu_usage" -> "sample"
      [] step = "analyze_processes" -> "final_pass"
      [] step = "detect_secrets_activity" -> "disk_start"
      [] step = "generate_report" -> "assemble"
      [] step = "return" -> "done"

\* the phase of the run state machine a step of run_detection is
PhaseOf(step) ==
    CASE step = "find_augment_extensions" -> "Scanning"
      [] step = "monitor_cpu_usage" -> "Sampling"
      [] step = "analyze_processes" -> "Correlating"
      [] step = "detect_secrets_activity" -> "Evaluating"
      [] step = "generate_report" -> "Assembling"
      [] step = "return" -> "Done"

\* control passes from one step of run_detection to the next; `sampled` are
\* the counters the finishing step read last
Proceed(from, sampled) ==
    /\ pc' = PcOf(StepAfter(from))
    /\ events' = events \o sampled \o <<PhaseOf(StepAfter(from))>>

----------------------------------------------------------------------------
(* The two entry points of a detection run and their exit status *)

EntryPoints == {"augment-fix detect", "augment_secret_detector.py"}

\* handle_detect of cli.py returns 0 after the summary and 1 for root, for
\* KeyboardInterrupt and for any other exception; main() hands it to sys.exit
ExitCodeCli(outcome) == IF outcome = "completed" THEN 0 ELSE 1

\* main() of augment_secret_detector.py calls sys.exit(1) for root only;
\* its two except clauses print and fall off the end of main
ExitCodeScript(outcome) == IF outcome = "root" THEN 1 ELSE 0

\* the exit status of the process, for each way the run was started
ExitCodes(outcome) ==
    [e \in EntryPoints |-> IF e = "augment-fix detect"
                           THEN ExitCodeCli(outcome)
                           ELSE ExitCodeScript(outcome)]

\* the process has not exited
NotExited == [e \in EntryPoints |-> 0 - 1]

\* the core counts of the hosts tried: eight cores, or undetermined
HostCores == {8}
FaultyHostCores == {NoneCores, 8}

----------------------------------------------------------------------------
(* The state machine *)

\* the detector after __init__, before run_detection is called
InitDetector ==
    /\ pc = "idle"
    /\ cpu_threshold = DefaultCpuThreshold
    /\ disk_threshold = DefaultDiskThreshold
    /\ network_threshold = DefaultNetworkThreshold
    /\ fs \in FileSystems
    /\ augment_dirs = <<>>
    /\ clock = 0
    /\ cpu_readings = <<>>
    /\ passes = <<>>
    /\ cpu_analysis = NoAnalysis
    /\ processes = <<>>
    /\ io_start = NoDisk
    /\ io_end = NoDisk
    /\ disk_deltas = <<>>
    /\ net_start = NoNet
    /\ net_end = NoNet
    /\ net_deltas = <<>>
    /\ secrets_indicators = <<>>
    /\ report = NoReport
    /\ events = <<>>
    /\ scan_log = <<>>
    /\ failure = ""
    /\ exit_code = NotExited
    /\ reports = <<>>
    /\ pass_outcome = NoOutcome
    /\ report_files = {}
    /\ ToolsUnused

Init ==
    /\ InitDetector
    /\ pass_table = <<>>
    /\ monitoring_duration \in Durations
    /\ cpu_count \in HostCores
    /\ is_root = FALSE

\* run_detection is called
RunDetection ==
    /\ pc = "idle"
    /\ ~is_root
    /\ pc' = PcOf("find_augment_extensions")
    /\ events' = <<PhaseOf("find_augment_extensions")>>
    /\ UNCHANGED <<host, monitoring_duration, cpu_threshold, disk_threshold,
                   network_threshold, fs, augment_dirs, clock, cpu_readings,
                   passes, cpu_analysis, processes, io_start, io_end,
                   disk_deltas, net_start, net_end, net_deltas,
                   secrets_indicators, report,
                   scan_log, failure, exit_code, reports, report_files>>

\* self.find_augment_extensions()
Scan ==
    /\ pc = "scan"
    /\ augment_dirs' = FindAugmentExtensions(fs, augment_dirs)
    /\ scan_log' = scan_log \o ScanLog(fs, augment_dirs)
    /\ Proceed("find_augment_extensions", <<>>)
    /\ UNCHANGED <<host, monitoring_duration, cpu_threshold, disk_threshold,
                   network_threshold, fs, clock, cpu_readings, passes,
                   cpu_analysis, processes, io_start, io_end, disk_deltas,
                   net_start, net_end, net_deltas, secrets_indicators,
                   report,
                   failure, exit_code, reports, report_files>>

\* one iteration of the while loop up to the threshold test
SampleCpu ==
    /\ pc = "sample"
    /\ LoopContinues(clock, monitoring_duration)
    /\ \E cpu_percent \in CpuValues :
        /\ cpu_readings' = Append(cpu_readings, cpu_percent)
        /\ pc' = IF IsHigh(cpu_percent, cpu_threshold)
                 THEN "correlate" ELSE "sample"
    /\ clock' = clock + CpuIntervalSeconds * TicksPerSecond
    /\ events' = Append(events, "cpu")
    /\ UNCHANGED <<host, monitoring_duration, cpu_threshold, disk_threshold,
                   network_threshold, fs, augment_dirs, passes, cpu_analysis,
                   processes, io_start, io_end, disk_deltas, net_start,
                   net_end, net_deltas, secrets_indicators, report,
                   scan_log, failure, exit_code, reports, report_files>>

\* self.analyze_processes() inside the loop: the result is dropped
TriggeredPass ==
    /\ pc = "correlate"
    /\ \E table \in TablesShown(pass_table), cost \in EnumCosts :
        /\ ~PassRaises(table, cpu_count)
        /\ passes' = Append(passes, [trigger |-> Len(cpu_readings),
                                     result |-> AnalyzeProcesses(table)])
        /\ processes' =
              ProcessesAfterPass(processes, AnalyzeProcesses(table), TRUE)
        /\ clock' = clock + PrimeSleepDs + cost
    /\ pc' = "sample"
    /\ events' = Append(events, "procs")
    /\ UNCHANGED <<host, monitoring_duration, cpu_threshold, disk_threshold,
                   network_threshold, fs, augment_dirs, cpu_readings,
                   cpu_analysis, io_start, io_end, disk_deltas,
                   net_start, net_end, net_deltas, secrets_indicators,
                   report,
                   scan_log, failure, exit_code, reports, report_files>>

\* the loop ends and monitor_cpu_usage returns; with no reading at all
\* sum(cpu_readings) / len(cpu_readings) raises ZeroDivisionError
FinishSampling ==
    /\ pc = "sample"
    /\ ~LoopContinues(clock, monitoring_duration)
    /\ IF cpu_readings = <<>>
       THEN /\ pc' = "failed"
            /\ failure' = "ZeroDivisionError"
            /\ exit_code' = ExitCodes("Exception")
            /\ UNCHANGED <<cpu_analysis, events>>
       ELSE /\ cpu_analysis' = CpuAnalysis(cpu_readings, cpu_threshold)
            /\ Proceed("monitor_cpu_usage", <<>>)
            /\ UNCHANGED <<failure, exit_code>>
    /\ UNCHANGED <<host, monitoring_duration, cpu_threshold, disk_threshold,
                   network_threshold, fs, augment_dirs, clock, cpu_readings,
                   passes, processes, io_start, io_end, disk_deltas,
                   net_start, net_end, net_deltas, secrets_indicators,
                   report,
                   scan_log, reports, report_files>>

\* processes = self.analyze_processes() in run_detection
FinalPass ==
    /\ pc = "final_pass"
    /\ \E table \in TablesShown(pass_table) :
        /\ ~PassRaises(table, cpu_count)
        /\ processes' =
              ProcessesAfterPass(processes, AnalyzeProcesses(table), FALSE)
        /\ passes' = Append(passes, [trigger |-> 0,
                                     result |-> AnalyzeProcesses(table)])
    /\ Proceed("analyze_processes", <<"procs">>)
    /\ UNCHANGED <<host, monitoring_duration, cpu_threshold, disk_threshold,
                   network_threshold, fs, augment_dirs, clock, cpu_readings,
                   cpu_analysis, io_start, io_end, disk_deltas, net_start,
                   net_end, net_deltas, secrets_indicators, report,
                   scan_log, failure, exit_code, reports, report_files>>

\* io_start = psutil.disk_io_counters()
DiskStart ==
    /\ pc = "disk_start"
    /\ io_start' \in DiskStarts
    /\ pc' = "disk_end"
    /\ events' = Append(events, "disk")
    /\ UNCHANGED <<host, monitoring_duration, cpu_threshold, disk_threshold,
                   network_threshold, fs, augment_dirs, clock, cpu_readings,
                   passes, cpu_analysis, processes, io_end, disk_deltas,
                   net_start, net_end, net_deltas, secrets_indicators,
                   report,
                   scan_log, failure, exit_code, reports, report_files>>

\* io_end = psutil.disk_io_counters() after time.sleep(2), and the test
DiskEnd ==
    /\ pc = "disk_end"
    /\ \E e \in DiskEnds :
        /\ io_end' = e
        /\ disk_deltas' = DiskDeltas(io_start, e)
        /\ secrets_indicators' =
              secrets_indicators
              \o DiskIndicators(DiskDeltas(io_start, e), disk_threshold)
    /\ pc' = "net_start"
    /\ events' = Append(events, "disk")
    /\ UNCHANGED <<host, monitoring_duration, cpu_threshold, disk_threshold,
                   network_threshold, fs, augment_dirs, clock, cpu_readings,
                   passes, cpu_analysis, processes, io_start, net_start,
                   net_end, net_deltas, report,
                   scan_log, failure, exit_code, reports, report_files>>

\* net_start = psutil.net_io_counters()
NetStart ==
    /\ pc = "net_start"
    /\ net_start' \in NetStarts
    /\ pc' = "net_end"
    /\ events' = Append(events, "net")
    /\ UNCHANGED <<host, monitoring_duration, cpu_threshold, disk_threshold,
                   network_threshold, fs, augment_dirs, clock, cpu_readings,
                   passes, cpu_analysis, processes, io_start, io_end,
                   disk_deltas, net_end, net_deltas, secrets_indicators,
                   report,
                   scan_log, failure, exit_code, reports, report_files>>

\* net_end = psutil.net_io_counters() after time.sleep(1), and the test;
\* detect_secrets_activity returns
NetEnd ==
    /\ pc = "net_end"
    /\ \E e \in NetEnds :
        /\ net_end' = e
        /\ net_deltas' = NetDeltas(net_start, e)
        /\ secrets_indicators' =
              secrets_indicators
              \o NetIndicators(NetDeltas(net_start, e), network_threshold)
    /\ Proceed("detect_secrets_activity", <<"net">>)
    /\ UNCHANGED <<host, monitoring_duration, cpu_threshold, disk_threshold,
                   network_threshold, fs, augment_dirs, clock, cpu_readings,
                   passes, cpu_analysis, processes, io_start, io_end,
                   disk_deltas, net_start, report,
                   scan_log, failure, exit_code, reports, report_files>>

\* report = self.generate_report(cpu_analysis, processes, secrets_indicators),
\* run_detection returns and the entry point prints the summary
Assemble ==
    /\ pc = "assemble"
    /\ report' = GenerateReport(cpu_analysis, processes, secrets_indicators,
                                augment_dirs)
    /\ reports' = Append(reports, report')
    /\ report_files' = WriteReport(report_files, clock + AfterSamplingDs,
                                   Len(reports'))
    /\ exit_code' = ExitCodes("completed")
    /\ Proceed("generate_report", <<>>)
    /\ UNCHANGED <<host, monitoring_duration, cpu_threshold, disk_threshold,
                   network_threshold, fs, augment_dirs, clock, cpu_readings,
                   passes, cpu_analysis, processes, io_start, io_end,
                   disk_deltas, net_start, net_end, net_deltas,
                   secrets_indicators, scan_log, failure>>

Next ==
    \/ RunDetection
    \/ Scan
    \/ SampleCpu
    \/ TriggeredPass
    \/ FinishSampling
    \/ FinalPass
    \/ DiskStart
    \/ DiskEnd
    \/ NetStart
    \/ NetEnd
    \/ Assemble

Spec == Init /\ [][Next]_vars

----------------------------------------------------------------------------
(* The run on a host where calls fail: samplers raise, the core count is   *)
(* undetermined, the report file cannot be written, the user presses       *)
(* Ctrl-C, or the process runs as root                                     *)

InitFault ==
    /\ InitDetector
    /\ pass_table = <<>>
    /\ monitoring_duration \in (0 - 1)..MaxFaultDuration
    /\ cpu_count \in FaultyHostCores
    /\ is_root \in BOOLEAN

\* what the steps below leave alone
settings ==
    <<monitoring_duration, cpu_threshold, disk_threshold, network_threshold,
      fs>>
sampled ==
    <<clock, cpu_readings, passes, cpu_analysis, processes, io_start, io_end,
      disk_deltas, net_start, net_end, net_deltas, secrets_indicators>>

\* os.getuid() == 0: both entry points refuse before a detector is built
RefuseRoot ==
    /\ pc = "idle"
    /\ is_root
    /\ pc' = "refused"
    /\ exit_code' = ExitCodes("root")
    /\ UNCHANGED <<host, settings, sampled, augment_dirs, report, events,
                   scan_log, failure, reports, report_files>>

\* the run is blocked in psutil.cpu_percent(interval=1) or in a time.sleep
Blocked ==
    \/ pc = "sample" /\ LoopContinues(clock, monitoring_duration)
    \/ pc \in {"correlate", "final_pass", "disk_end", "net_end"}

\* Ctrl-C while the run is blocked: no function of the detector catches
\* KeyboardInterrupt (except Exception does not), the entry point does
Interrupt ==
    /\ Blocked
    /\ pc' = "interrupted"
    /\ failure' = "KeyboardInterrupt"
    /\ exit_code' = ExitCodes("KeyboardInterrupt")
    /\ UNCHANGED <<host, settings, sampled, augment_dirs, report, events,
                   scan_log, reports, report_files>>

\* psutil.cpu_percent raises: monitor_cpu_usage has no try, nor has
\* run_detection, so the entry point's except Exception ends the run
CpuSamplerRaises ==
    /\ pc = "sample"
    /\ LoopContinues(clock, monitoring_duration)
    /\ pc' = "failed"
    /\ failure' = "cpu_percent"
    /\ exit_code' = ExitCodes("Exception")
    /\ events' = Append(events, "cpu")
    /\ UNCHANGED <<host, settings, sampled, augment_dirs, report, scan_log,
                   reports, report_files>>

\* self.analyze_processes() raises TypeError, in the loop or after it
PassFails ==
    /\ pc \in {"correlate", "final_pass"}
    /\ \E table \in ProcTables : PassRaises(table, cpu_count)
    /\ pc' = "failed"
    /\ failure' = "TypeError"
    /\ exit_code' = ExitCodes("Exception")
    /\ events' = Append(events, "procs")
    /\ UNCHANGED <<host, settings, sampled, augment_dirs, report, scan_log,
                   reports, report_files>>

\* the first psutil.disk_io_counters() raises: except Exception logs the
\* error and detect_secrets_activity goes on with the network check
DiskStartRaises ==
    /\ pc = "disk_start"
    /\ pc' = "net_start"
    /\ events' = Append(events, "disk")
    /\ UNCHANGED <<host, settings, sampled, augment_dirs, report, scan_log,
                   failure, exit_code, reports, report_files>>

\* the second psutil.disk_io_counters() raises
DiskEndRaises ==
    /\ pc = "disk_end"
    /\ pc' = "net_start"
    /\ events' = Append(events, "disk")
    /\ UNCHANGED <<host, settings, sampled, augment_dirs, report, scan_log,
                   failure, exit_code, reports, report_files>>

\* the first psutil.net_io_counters() raises: except Exception logs the
\* error and detect_secrets_activity returns what it has
NetStartRaises ==
    /\ pc = "net_start"
    /\ Proceed("detect_secrets_activity", <<"net">>)
    /\ UNCHANGED <<host, settings, sampled, augment_dirs, report, scan_log,
                   failure, exit_code, reports, report_files>>

\* the second psutil.net_io_counters() raises
NetEndRaises ==
    /\ pc = "net_end"
    /\ Proceed("detect_secrets_activity", <<"net">>)
    /\ UNCHANGED <<host, settings, sampled, augment_dirs, report, scan_log,
                   failure, exit_code, reports, report_files>>

\* open(report_file, 'w') or json.dump raises OSError: generate_report
\* returns nothing and the entry point's except Exception ends the run
WriteFails ==
    /\ pc = "assemble"
    /\ pc' = "failed"
    /\ failure' = "OSError"
    /\ exit_code' = ExitCodes("Exception")
    /\ UNCHANGED <<host, settings, sampled, augment_dirs, report, events,
                   scan_log, reports, report_files>>

NextFault ==
    \/ Next
    \/ RefuseRoot
    \/ Interrupt
    \/ CpuSamplerRaises
    \/ PassFails
    \/ DiskStartRaises
    \/ DiskEndRaises
    \/ NetStartRaises
    \/ NetEndRaises
    \/ WriteFails

SpecFault == InitFault /\ [][NextFault]_vars

----------------------------------------------------------------------------
(* One analyze_processes call, on any process table and core count *)

InitPass ==
    /\ pc = "pass_ready"
    /\ monitoring_duration = 0
    /\ cpu_threshold = DefaultCpuThreshold
    /\ disk_threshold = DefaultDiskThreshold
    /\ network_threshold = DefaultNetworkThreshold
    /\ fs = <<>>
    /\ augment_dirs = <<>>
    /\ clock = 0
    /\ cpu_readings = <<>>
    /\ passes = <<>>
    /\ cpu_analysis = NoAnalysis
    /\ processes = <<>>
    /\ io_start = NoDisk
    /\ io_end = NoDisk
    /\ disk_deltas = <<>>
    /\ net_start = NoNet
    /\ net_end = NoNet
    /\ net_deltas = <<>>
    /\ secrets_indicators = <<>>
    /\ report = NoReport
    /\ events = <<>>
    /\ cpu_count \in PassCores
    /\ is_root = FALSE
    /\ scan_log = <<>>
    /\ failure = ""
    /\ exit_code = NotExited
    /\ reports = <<>>
    /\ pass_table \in PassTables
    /\ pass_outcome = NoOutcome
    /\ report_files = {}
    /\ ToolsUnused

\* detector.analyze_processes()
RunPass ==
    /\ pc = "pass_ready"
    /\ pass_outcome' = AnalyzePass(pass_table, cpu_count)
    /\ pc' = "pass_done"
    /\ UNCHANGED <<cpu_count, is_root, pass_table, tools, settings, sampled,
                   augment_dirs, report, events, scan_log, failure,
                   exit_code, reports, report_files>>

NextPass == RunPass

SpecPass == InitPass /\ [][NextPass]_vars

----------------------------------------------------------------------------
(* The report assembler called repeatedly on one detector, with the       *)
(* results of the samplers, the evaluator and the correlator injected      *)

InitReplay ==
    /\ pc = "replay"
    /\ monitoring_duration = 0
    /\ cpu_threshold = DefaultCpuThreshold
    /\ disk_threshold = DefaultDiskThreshold
    /\ network_threshold = DefaultNetworkThreshold
    /\ fs \in ReplayFileSystems
    /\ augment_dirs = <<>>
    /\ clock = 0
    /\ cpu_readings = <<>>
    /\ passes = <<>>
    /\ cpu_analysis \in InjectedAnalyses
    /\ processes \in InjectedProcesses
    /\ io_start = NoDisk
    /\ io_end = NoDisk
    /\ disk_deltas = <<>>
    /\ net_start = NoNet
    /\ net_end = NoNet
    /\ net_deltas = <<>>
    /\ secrets_indicators \in InjectedIndicators
    /\ report = NoReport
    /\ events = <<>>
    /\ cpu_count \in HostCores
    /\ is_root = FALSE
    /\ scan_log = <<>>
    /\ failure = ""
    /\ exit_code = NotExited
    /\ reports = <<>>
    /\ pass_table = <<>>
    /\ pass_outcome = NoOutcome
    /\ report_files = {}
    /\ ToolsUnused

\* the time between the report of one run and that of the next, with no
\* sampler to wait for: next to none, or a second
ReplayWaits == {0, TicksPerSecond}

\* run_detection with monitor_cpu_usage, analyze_processes and
\* detect_secrets_activity replaced by the injected results; `clock` is
\* the time since the second in which the detector was built
ReplayRun ==
    /\ pc = "replay"
    /\ Len(reports) < MaxCalls
    /\ augment_dirs' = FindAugmentExtensions(fs, augment_dirs)
    /\ scan_log' = scan_log \o ScanLog(fs, augment_dirs)
    /\ report' = GenerateReport(cpu_analysis, processes, secrets_indicators,
                                augment_dirs')
    /\ reports' = Append(reports, report')
    /\ \E wait \in ReplayWaits :
        /\ clock' = clock + wait
        /\ report_files' = WriteReport(report_files, clock', Len(reports'))
    /\ UNCHANGED <<host, pc, monitoring_duration, cpu_threshold,
                   disk_threshold, network_threshold, fs,
                   cpu_readings, passes, cpu_analysis, processes, io_start,
                   io_end, disk_deltas, net_start, net_end, net_deltas,
                   secrets_indicators, events, failure, exit_code>>

NextReplay == ReplayRun

SpecReplay == InitReplay /\ [][NextReplay]_vars

----------------------------------------------------------------------------
(* AugmentVersionManager (src/augment_secret_fix/version_manager.py): the  *)
(* extension directory, the backups and the history it keeps               *)

\* config["history"][-50:]
HistoryLimit == 50

\* an extension directory tree: its version, whether it holds the sentinel
\* .version_locked, whether its mode lets the owner write (0o755, not
\* 0o555), and whether all of its files are there
Tree(version, sentinel, writable, whole) ==
    [version |-> version, sentinel |-> sentinel, writable |-> writable,
     whole |-> whole]

\* what find_augment_extension returns: the directory, or None
Extension(tree) == [exists |-> TRUE, tree |-> tree]
NoExtension == [exists |-> FALSE, tree |-> Tree(0, FALSE, TRUE, TRUE)]

\* backup_name = f"augment_v{version}_{timestamp}": the timestamp has a
\* resolution of one second
BackupName(version, now) == <<version, now>>

\* one entry of config["history"]; `call` stands for its timestamp
HistoryEntry(action, call) == [action |-> action, call |-> call]

\* s[:n] where s[-n:] is meant: the oldest entries are kept
FirstEntries(s, n) == IF Len(s) <= n THEN s ELSE SubSeq(s, 1, n)

\* s[-n:]
LastEntries(s, n) ==
    IF Len(s) <= n THEN s ELSE SubSeq(s, Len(s) - n + 1, Len(s))

\* how writing version_config.json may end: written, open() raises and the
\* file stays as it was, or json.dump raises and leaves it cut short
ConfigWrites == {"ok", "open_fails", "dump_fails"}

\* update_config on the manager state st: a file that cannot be parsed
\* counts as {}, the entry is appended, the last 50 are kept and written;
\* a failing write is logged, never raised.  `recorded` is the history of
\* the entries that were written
UpdateConfig(st, action, write) ==
    LET loaded == IF st.config.readable THEN st.config.history ELSE <<>>
        entry == HistoryEntry(action, Len(st.calls) + 1)
        kept == LastEntries(Append(loaded, entry), HistoryLimit)
    IN  CASE write = "ok" ->
                [st EXCEPT !.config = [readable |-> TRUE, history |-> kept],
                           !.recorded = Append(st.recorded, entry)]
          [] write = "open_fails" -> st
          [] write = "dump_fails" ->
                [st EXCEPT !.config = [readable |-> FALSE, history |-> <<>>]]

\* backup_current_version: False without an extension or when copytree
\* raises (it does when a backup of that name exists), else the backup path
BackupCurrentVersion(st, copy, write) ==
    LET name == BackupName(st.ext.tree.version, st.now)
    IN  IF ~st.ext.exists
        THEN [st |-> st, result |-> FALSE]
        ELSE IF copy = "fails" \/ \E b \in st.backups : b.name = name
        THEN [st |-> st, result |-> FALSE]
        ELSE [st |-> UpdateConfig(
                        [st EXCEPT !.backups =
                            st.backups
                            \cup {[name |-> name, tree |-> st.ext.tree]}],
                        "backup_created", write),
              result |-> TRUE]

\* how shutil.rmtree(current_ext) ends: a directory of mode 0o555 cannot
\* be emptied, so it raises there; when it raises the files removed so far
\* are gone ("partial") or none is ("fails")
Rmtree(tree, rm) == IF ~tree.writable /\ rm = "ok" THEN "fails" ELSE rm

\* what the calls of one rollback may do
RollbackOutcomes ==
    [copy : {"ok", "fails"}, write : ConfigWrites,
     rm : {"ok", "fails", "partial"}, restore : {"ok", "fails"}]

\* rollback_to_version(target): False when the backup or the extension is
\* missing; else backup_current_version() (its result is not looked at),
\* rmtree, copytree, update_config, True; any exception gives False
RollbackToVersion(st, target, o) ==
    LET chosen == {b \in st.backups : b.name = target}
        saved == BackupCurrentVersion(st, o.copy, o.write).st
        removed == Rmtree(st.ext.tree, o.rm)
    IN  IF chosen = {} \/ ~st.ext.exists
        THEN [st |-> st, result |-> FALSE]
        ELSE IF removed = "fails"
        THEN [st |-> saved, result |-> FALSE]
        ELSE IF removed = "partial"
        THEN [st |-> [saved EXCEPT !.ext.tree.whole = FALSE],
              result |-> FALSE]
        ELSE IF o.restore = "fails"
        THEN [st |-> [saved EXCEPT !.ext = NoExtension], result |-> FALSE]
        ELSE [st |-> UpdateConfig(
                        [saved EXCEPT !.ext =
                            Extension((CHOOSE b \in chosen : TRUE).tree)],
                        "rollback_completed", o.write),
              result |-> TRUE]

\* how the statements of lock_version and unlock_version may end
LockOutcomes == {"ok", "open_fails", "dump_fails", "chmod_fails"}
UnlockOutcomes == {"ok", "chmod_fails", "unlink_fails"}

\* lock_version: write .version_locked, chmod 0o555, update_config, True;
\* any exception gives False and what was done stays done
LockVersion(st, step, write) ==
    IF ~st.ext.exists
    THEN [st |-> st, result |-> FALSE]
    ELSE IF \/ step = "open_fails"
            \/ ~st.ext.tree.writable /\ ~st.ext.tree.sentinel
    THEN [st |-> st, result |-> FALSE]
    ELSE IF step \in {"dump_fails", "chmod_fails"}
    THEN [st |-> [st EXCEPT !.ext.tree.sentinel = TRUE], result |-> FALSE]
    ELSE [st |-> UpdateConfig([st EXCEPT !.ext.tree.sentinel = TRUE,
                                         !.ext.tree.writable = FALSE],
                              "version_locked", write),
          result |-> TRUE]

\* unlock_version: chmod 0o755, unlink the sentinel if it is there,
\* update_config, True; any exception gives False
UnlockVersion(st, step, write) ==
    IF ~st.ext.exists \/ step = "chmod_fails"
    THEN [st |-> st, result |-> FALSE]
    ELSE IF step = "unlink_fails" /\ st.ext.tree.sentinel
    THEN [st |-> [st EXCEPT !.ext.tree.writable = TRUE], result |-> FALSE]
    ELSE [st |-> UpdateConfig([st EXCEPT !.ext.tree.sentinel = FALSE,
                                         !.ext.tree.writable = TRUE],
                              "version_unlocked", write),
          result |-> TRUE]

\* a history of n entries written by earlier sessions
OldHistory(n) == [i \in 1..n |-> HistoryEntry("backup_created", i - n)]

\* the backup an earlier session left
OldBackup == [name |-> BackupName(1, 0), tree |-> Tree(1, FALSE, TRUE, TRUE)]

\* the state after AugmentVersionManager(): the installed extension if
\* any, the backups and the config file found in ~/.augment_backups
VersionManagers ==
    { [ext |-> ext, backups |-> backups,
       config |-> [readable |-> TRUE, history |-> OldHistory(n)],
       recorded |-> OldHistory(n), now |-> 0, calls |-> <<>>] :
        ext \in {NoExtension, Extension(Tree(2, FALSE, TRUE, TRUE))},
        backups \in {{}, {OldBackup}},
        n \in {0, HistoryLimit - 1, HistoryLimit} }

\* the detector is not part of these runs
DetectorUnused ==
    /\ pc = "tools"
    /\ monitoring_duration = 0
    /\ cpu_threshold = DefaultCpuThreshold
    /\ disk_threshold = DefaultDiskThreshold
    /\ network_threshold = DefaultNetworkThreshold
    /\ fs = <<>>
    /\ augment_dirs = <<>>
    /\ clock = 0
    /\ cpu_readings = <<>>
    /\ passes = <<>>
    /\ cpu_analysis = NoAnalysis
    /\ processes = <<>>
    /\ io_start = NoDisk
    /\ io_end = NoDisk
    /\ disk_deltas = <<>>
    /\ net_start = NoNet
    /\ net_end = NoNet
    /\ net_deltas = <<>>
    /\ secrets_indicators = <<>>
    /\ report = NoReport
    /\ events = <<>>
    /\ cpu_count \in HostCores
    /\ is_root = FALSE
    /\ scan_log = <<>>
    /\ failure = ""
    /\ exit_code = NotExited
    /\ reports = <<>>
    /\ pass_table = <<>>
    /\ pass_outcome = NoOutcome
    /\ report_files = {}

detector ==
    <<pc, settings, sampled, augment_dirs, report, events, cpu_count,
      is_root, scan_log, failure, exit_code, reports, pass_table,
      pass_outcome, report_files>>

InitVersion ==
    /\ DetectorUnused
    /\ vm \in VersionManagers
    /\ up = <<>>
    /\ cli = <<>>

\* the manager after one more call: the state the call left, and the
\* call with what it returned
AfterCall(op, outcome) ==
    [outcome.st EXCEPT
        !.calls = Append(vm.calls, [op |-> op, result |-> outcome.result])]

\* augment-fix version backup
Backup ==
    /\ Len(vm.calls) < MaxVmCalls
    /\ \E copy \in {"ok", "fails"}, write \in ConfigWrites :
        vm' = AfterCall("backup", BackupCurrentVersion(vm, copy, write))
    /\ UNCHANGED <<detector, up, cli>>

\* augment-fix version rollback <backup>, for a backup of the list or a
\* name that is not there
Rollback ==
    /\ Len(vm.calls) < MaxVmCalls
    /\ \E target \in {b.name : b \in vm.backups} \cup {BackupName(0, 0)},
          o \in RollbackOutcomes :
        vm' = AfterCall("rollback", RollbackToVersion(vm, target, o))
    /\ UNCHANGED <<detector, up, cli>>

\* augment-fix version lock
Lock ==
    /\ Len(vm.calls) < MaxVmCalls
    /\ \E step \in LockOutcomes, write \in ConfigWrites :
        vm' = AfterCall("lock", LockVersion(vm, step, write))
    /\ UNCHANGED <<detector, up, cli>>

\* augment-fix version unlock
Unlock ==
    /\ Len(vm.calls) < MaxVmCalls
    /\ \E step \in UnlockOutcomes, write \in ConfigWrites :
        vm' = AfterCall("unlock", UnlockVersion(vm, step, write))
    /\ UNCHANGED <<detector, up, cli>>

\* a second passes between two calls
Tick ==
    /\ vm.now < MaxVmSeconds
    /\ vm' = [vm EXCEPT !.now = vm.now + 1]
    /\ UNCHANGED <<detector, up, cli>>

NextVersion ==
    \/ Backup
    \/ Rollback
    \/ Lock
    \/ Unlock
    \/ Tick

SpecVersion == InitVersion /\ [][NextVersion]_vars

----------------------------------------------------------------------------
(* VSCodeUpdater.update_vscode (src/vscode_updater.py): the chat-log       *)
(* backup and the package-manager commands, in the order they are run      *)

\* the values of the method argument
Methods == {"auto", "snap", "apt", "flatpak", "download"}

\* the commands update_vscode may run; all but "snap list code" change
\* what is installed
SnapList == "snap list code"
SnapRefresh == "sudo snap refresh code"
AptUpdate == "sudo apt update"
AptUpgrade == "sudo apt upgrade code"
FlatpakUpdate == "flatpak update com.visualstudio.code"
UpdateCommands == {SnapRefresh, AptUpdate, AptUpgrade, FlatpakUpdate}

\* the chat logs find_chat_logs may find
ChatLogs == {"chat.json", "augment.log"}

\* the host: what shutil.which finds, whether snap lists the editor, and
\* the chat logs there are
UpdaterHosts ==
    [snap : BOOLEAN, snap_code : BOOLEAN, apt : BOOLEAN, flatpak : BOOLEAN,
     logs : {{}, ChatLogs}]

\* how a subprocess.run ends: return code 0, another return code,
\* TimeoutExpired, or another exception
RunOutcomes == {"zero", "nonzero", "timeout", "error"}

\* a backup whose exception is swallowed: the update goes on
AfterBackupSwallowed(st, raised) ==
    [st EXCEPT !.pc = "dispatch"]

\* where update_vscode goes after self.backup_chat_logs(): on; or, when it
\* raised, out of the call (the backup is made before the try) and, for
\* the call made by the auto method, into the except clause of the caller
AfterBackup(st, raised) ==
    IF ~raised THEN [st EXCEPT !.pc = "dispatch"]
    ELSE IF st.depth = 0
    THEN [st EXCEPT !.pc = "raised", !.result = "raised"]
    ELSE [st EXCEPT !.pc = "returned", !.result = "False"]

\* the return of update_vscode after its last command: True for return
\* code 0, False otherwise and for every exception
Returned(st, outcome) ==
    [st EXCEPT !.pc = "returned",
               !.result = IF outcome = "zero" THEN "True" ELSE "False"]

\* the method the auto branch settles on, "" when no package manager is
\* there
Detected(h) ==
    IF h.snap /\ h.snap_code THEN "snap"
    ELSE IF h.apt THEN "apt"
    ELSE IF h.flatpak THEN "flatpak"
    ELSE ""

\* VSCodeUpdater() and the method the user asks for
InitUpdater ==
    /\ DetectorUnused
    /\ vm = <<>>
    /\ cli = <<>>
    /\ \E method \in Methods, h \in UpdaterHosts :
        up = [method |-> method, host |-> h, depth |-> 0, pc |-> "idle",
              log |-> <<>>, backed_up |-> <<>>, result |-> "none"]

\* update_vscode(method) is called
UpdateVscode ==
    /\ up.pc = "idle"
    /\ up' = [up EXCEPT !.pc = "backup"]
    /\ UNCHANGED <<detector, vm, cli>>

\* self.backup_chat_logs(): nothing to do without logs; else every file is
\* copied or its failure logged, and the manifest is written, which may
\* raise (as the mkdir of the session directory may)
BackupChatLogs ==
    /\ up.pc = "backup"
    /\ \/ /\ up.host.logs = {}
          /\ up' = AfterBackup(
                      [up EXCEPT !.log = Append(up.log, "backup_completed"),
                                 !.backed_up = Append(up.backed_up, {})],
                      FALSE)
       \/ /\ up.host.logs # {}
          /\ \E copied \in SUBSET up.host.logs :
                up' = AfterBackup(
                         [up EXCEPT
                            !.log = Append(up.log, "backup_completed"),
                            !.backed_up = Append(up.backed_up, copied)],
                         FALSE)
       \/ /\ up.host.logs # {}
          /\ up' = AfterBackup(
                      [up EXCEPT !.log = Append(up.log, "backup_raised")],
                      TRUE)
    /\ UNCHANGED <<detector, vm, cli>>

\* method == "snap"
RunSnapRefresh ==
    /\ up.pc = "dispatch" /\ up.method = "snap"
    /\ \E outcome \in RunOutcomes :
        up' = Returned([up EXCEPT !.log = Append(up.log, SnapRefresh)],
                       outcome)
    /\ UNCHANGED <<detector, vm, cli>>

\* method == "apt": apt update with check=True, so a return code other
\* than 0 raises CalledProcessError
RunAptUpdate ==
    /\ up.pc = "dispatch" /\ up.method = "apt"
    /\ \E outcome \in RunOutcomes :
        up' = IF outcome = "zero"
              THEN [up EXCEPT !.log = Append(up.log, AptUpdate),
                              !.pc = "apt_upgrade"]
              ELSE Returned([up EXCEPT !.log = Append(up.log, AptUpdate)],
                            outcome)
    /\ UNCHANGED <<detector, vm, cli>>

RunAptUpgrade ==
    /\ up.pc = "apt_upgrade"
    /\ \E outcome \in RunOutcomes :
        up' = Returned([up EXCEPT !.log = Append(up.log, AptUpgrade)],
                       outcome)
    /\ UNCHANGED <<detector, vm, cli>>

\* method == "flatpak"
RunFlatpakUpdate ==
    /\ up.pc = "dispatch" /\ up.method = "flatpak"
    /\ \E outcome \in RunOutcomes :
        up' = Returned([up EXCEPT !.log = Append(up.log, FlatpakUpdate)],
                       outcome)
    /\ UNCHANGED <<detector, vm, cli>>

\* method == "download": not implemented, False
Download ==
    /\ up.pc = "dispatch" /\ up.method = "download"
    /\ up' = [up EXCEPT !.pc = "returned", !.result = "False"]
    /\ UNCHANGED <<detector, vm, cli>>

\* the auto method: snap list code when snap is there, then
\* return self.update_vscode(<the method found>), which backs up again; or
\* False
AutoDetect ==
    /\ up.pc = "dispatch" /\ up.method = "auto"
    /\ LET asked == IF up.host.snap THEN Append(up.log, SnapList)
                    ELSE up.log
       IN  up' = IF Detected(up.host) = ""
                 THEN [up EXCEPT !.log = asked, !.pc = "returned",
                                 !.result = "False"]
                 ELSE [up EXCEPT !.log = asked, !.pc = "backup",
                                 !.method = Detected(up.host),
                                 !.depth = 1]
    /\ UNCHANGED <<detector, vm, cli>>

NextUpdater ==
    \/ UpdateVscode
    \/ BackupChatLogs
    \/ RunSnapRefresh
    \/ RunAptUpdate
    \/ RunAptUpgrade
    \/ RunFlatpakUpdate
    \/ Download
    \/ AutoDetect

SpecUpdater == InitUpdater /\ [][NextUpdater]_vars

----------------------------------------------------------------------------
(* augment-fix version ... and augment-fix vscode ...                      *)
(* (src/augment_secret_fix/cli.py): the handlers and their exit status     *)

\* args.version_action and args.vscode_action; "" when none was given
VersionActions == {"status", "backup", "list", "rollback", "lock", "unlock"}
VscodeActions ==
    {"update", "backup-logs", "list-backups", "restore-logs",
     "interactive-restore"}

\* the values the operations return, and bool() of them
Truthy(result) == result \in {"True", "path", "files"}
Falsy(result) == result \in {"False", "None", "no_files"}

\* what the operation behind a vscode action may return: update_vscode,
\* restore_chat_logs and interactive_chat_restore True or False,
\* backup_chat_logs the list of the files copied, list_chat_backups a list
VscodeResults(action) ==
    CASE action \in {"update", "restore-logs", "interactive-restore"} ->
            {"True", "False"}
      [] action \in {"backup-logs", "list-backups"} -> {"files", "no_files"}
      [] OTHER -> {"None"}

\* what handle_version returns for the action and the result of its
\* operation
HandleVersion(action, result) ==
    IF action \in {"status", "list"} THEN 0
    ELSE IF action \in {"backup", "rollback", "lock", "unlock"}
    THEN IF Truthy(result) THEN 0 ELSE 1
    ELSE 1

\* what handle_vscode returns: the interactive-restore branch prints
\* "Restore cancelled or failed" and falls through to return 0
HandleVscode(action, result) ==
    IF action \in {"update", "restore-logs"}
    THEN IF Truthy(result) THEN 0 ELSE 1
    ELSE IF action \in {"backup-logs", "list-backups", "interactive-restore"}
    THEN 0
    ELSE 1

\* the command lines tried: no command, or one of the two commands with
\* one of its actions or none
CommandLines ==
    {[command |-> "", action |-> ""]}
    \cup [command : {"version"}, action : VersionActions \cup {""}]
    \cup [command : {"vscode"}, action : VscodeActions \cup {""}]

\* the process after parse_args, on a home directory with or without an
\* extension and an old backup
InitCli ==
    /\ DetectorUnused
    /\ vm \in {m \in VersionManagers : m.recorded = <<>>}
    /\ up = <<>>
    /\ \E line \in CommandLines :
        cli = [command |-> line.command, action |-> line.action,
               pc |-> "parsed", result |-> "none", restore |-> "none",
               exit |-> 0 - 1]

\* main: if not args.command: print_help, return 1
NoCommand ==
    /\ cli.pc = "parsed" /\ cli.command = ""
    /\ cli' = [cli EXCEPT !.pc = "exited", !.exit = 1]
    /\ UNCHANGED <<detector, vm, up>>

\* the operation handle_version runs for the action, on the manager st
VersionOperations(st, action) ==
    CASE action = "backup" ->
            {BackupCurrentVersion(st, copy, write) :
                copy \in {"ok", "fails"}, write \in ConfigWrites}
      [] action = "rollback" ->
            {RollbackToVersion(st, target, o) :
                target \in {b.name : b \in st.backups}
                           \cup {BackupName(0, 0)},
                o \in RollbackOutcomes}
      [] action = "lock" ->
            {LockVersion(st, step, write) :
                step \in LockOutcomes, write \in ConfigWrites}
      [] action = "unlock" ->
            {UnlockVersion(st, step, write) :
                step \in UnlockOutcomes, write \in ConfigWrites}
      [] OTHER -> {[st |-> st, result |-> FALSE]}

\* the value handle_version tests: the backup path or False, True or
\* False; show_status returns None and list_backups a list, not tested
VersionResult(action, outcome) ==
    IF action \in {"status", ""} THEN "None"
    ELSE IF action = "list" THEN "files"
    ELSE IF ~outcome.result THEN "False"
    ELSE IF action = "backup" THEN "path" ELSE "True"

\* handle_version(args) and sys.exit
RunVersion ==
    /\ cli.pc = "parsed" /\ cli.command = "version"
    /\ \E outcome \in VersionOperations(vm, cli.action) :
        /\ vm' = IF cli.action \in {"backup", "rollback", "lock", "unlock"}
                 THEN AfterCall(cli.action, outcome) ELSE vm
        /\ cli' = [cli EXCEPT
                     !.pc = "exited",
                     !.result = VersionResult(cli.action, outcome),
                     !.exit = HandleVersion(cli.action,
                                  VersionResult(cli.action, outcome))]
    /\ UNCHANGED <<detector, up>>

\* handle_vscode(args) up to its return or, after a successful update, to
\* the question "Restore chat logs? (Y/n)"
RunVscode ==
    /\ cli.pc = "parsed" /\ cli.command = "vscode"
    /\ \E result \in VscodeResults(cli.action) :
        cli' = IF cli.action = "update" /\ Truthy(result)
               THEN [cli EXCEPT !.pc = "prompt", !.result = result]
               ELSE [cli EXCEPT !.pc = "exited", !.result = result,
                                !.exit = HandleVscode(cli.action, result)]
    /\ UNCHANGED <<detector, vm, up>>

\* the answer to the question: anything but "n" restores the chat logs
\* (the result of restore_chat_logs is not looked at), Ctrl-C skips it
AnswerRestore ==
    /\ cli.pc = "prompt"
    /\ \E answer \in {"y", "", "n", "interrupt"}, restored \in BOOLEAN :
        cli' = [cli EXCEPT
                  !.pc = "exited",
                  !.restore = IF answer \in {"n", "interrupt"} THEN "skipped"
                              ELSE IF restored THEN "True" ELSE "False",
                  !.exit = HandleVscode(cli.action, cli.result)]
    /\ UNCHANGED <<detector, vm, up>>

NextCli ==
    \/ NoCommand
    \/ RunVersion
    \/ RunVscode
    \/ AnswerRestore

SpecCli == InitCli /\ [][NextCli]_vars

----------------------------------------------------------------------------
(* The run on a host whose process table stays the same from one          *)
(* enumeration to the next                                                 *)

InitSteady ==
    /\ InitDetector
    /\ pass_table \in SteadyTables
    /\ monitoring_duration \in 1..MaxSteadyDuration
    /\ cpu_count \in HostCores
    /\ is_root = FALSE

SpecSteady == InitSteady /\ [][Next]_vars

----------------------------------------------------------------------------
(* Positions of the run and helpers of the properties below *)

SamplingOver ==
    pc \in {"final_pass", "disk_start", "disk_end", "net_start", "net_end",
            "assemble", "done"}
FinalPassOver ==
    pc \in {"disk_start", "disk_end", "net_start", "net_end", "assemble",
            "done"}
DiskWindowOver == pc \in {"net_start", "net_end", "assemble", "done"}
NetWindowOver == pc \in {"assemble", "done"}

IsPrefix(s, t) == Len(s) <= Len(t) /\ s = SubSeq(t, 1, Len(s))

\* the passes a reading triggered, in the order they ran
TriggeredPasses == SelectSeq(passes, LAMBDA p : p.trigger > 0)

\* the passes no reading triggered
UntriggeredPasses == SelectSeq(passes, LAMBDA p : p.trigger = 0)

\* the indices of the readings strictly greater than cpu_threshold
HighReadings ==
    SelectSeq([i \in 1..Len(cpu_readings) |-> i],
              LAMBDA i : cpu_readings[i] > cpu_threshold)

----------------------------------------------------------------------------
(* C1 *)

\* C1 (as claimed): the process list of the final report is the
\* concatenation, in trigger order, of the lists produced by the correlator
\* passes that over-threshold CPU readings triggered during Sampling.
C1_Cumulative ==
    pc = "done" =>
        report.augment_processes =
            Flatten([i \in 1..Len(TriggeredPasses) |->
                        TriggeredPasses[i].result])

\* C1 (amended): the process list of the final report is the list produced
\* by the one correlator pass run_detection makes after Sampling, whatever
\* the passes triggered during Sampling produced: their lists are dropped.
C1_FinalPassOnly ==
    pc = "done" =>
        /\ passes # <<>>
        /\ passes[Len(passes)].trigger = 0
        /\ report.augment_processes = passes[Len(passes)].result

\* a finished run with two triggered passes that found processes, and a
\* final pass that found a different list than the first of them
C1_Witness ==
    /\ pc = "done"
    /\ Len(TriggeredPasses) >= 2
    /\ TriggeredPasses[1].result # <<>>
    /\ TriggeredPasses[2].result # <<>>
    /\ report.augment_processes # TriggeredPasses[1].result
    /\ report.augment_processes # <<>>

----------------------------------------------------------------------------
(* C2 *)

\* C2 (as claimed): correlator passes correspond one-to-one to readings
\* strictly greater than cpu_threshold, and no pass happens without one.
C2_OneToOne ==
    /\ \A i \in 1..Len(passes) :
          /\ passes[i].trigger \in 1..Len(cpu_readings)
          /\ cpu_readings[passes[i].trigger] > cpu_threshold
    /\ pc # "correlate" => Len(passes) = Len(HighReadings)

\* C2 (amended): each reading strictly greater than cpu_threshold triggers
\* exactly one correlator pass, which completes before the next CPU sample
\* is taken, and no pass happens in the Sampling loop without such a
\* reading; besides these, run_detection makes exactly one pass that no
\* reading triggered, after Sampling.
C2_TriggeredOneToOne ==
    /\ [i \in 1..Len(TriggeredPasses) |-> TriggeredPasses[i].trigger]
         = IF pc = "correlate"
           THEN SubSeq(HighReadings, 1, Len(HighReadings) - 1)
           ELSE HighReadings
    /\ pc = "correlate" =>
          /\ cpu_readings # <<>>
          /\ cpu_readings[Len(cpu_readings)] > cpu_threshold
    /\ Len(UntriggeredPasses) = IF FinalPassOver THEN 1 ELSE 0
    /\ FinalPassOver => passes[Len(passes)].trigger = 0

\* a finished run with two readings over the threshold and one not over it
C2_Witness ==
    /\ pc = "done"
    /\ Len(HighReadings) = 2
    /\ Len(cpu_readings) = 3
    /\ Len(passes) = 3

----------------------------------------------------------------------------
(* C3 *)

\* C3 (as claimed): a negative counter delta is clamped to zero: for every
\* disk or network window whose end value is smaller than its start value
\* the computed and logged value is 0, never a negative number.
C3_NegativeDeltaClamped ==
    /\ disk_deltas # <<>> =>
          /\ io_end.read_bytes < io_start.read_bytes =>
                disk_deltas[1].read_delta_mb = FromInt(0)
          /\ io_end.write_bytes < io_start.write_bytes =>
                disk_deltas[1].write_delta_mb = FromInt(0)
    /\ net_deltas # <<>> =>
          /\ net_end.bytes_sent < net_start.bytes_sent =>
                net_deltas[1].sent_delta_mb = FromInt(0)
          /\ net_end.bytes_recv < net_start.bytes_recv =>
                net_deltas[1].recv_delta_mb = FromInt(0)

----------------------------------------------------------------------------
(* C4 *)

\* C4 (as claimed): for every window with end >= start the value compared
\* against the threshold is the byte delta, in MB, divided by the length of
\* the window in seconds (2 for disk, 1 for network).
C4_RatePerSecond ==
    /\ disk_deltas # <<>> =>
          /\ io_end.read_bytes >= io_start.read_bytes =>
                disk_deltas[1].read_delta_mb
                  = Rat(io_end.read_bytes - io_start.read_bytes, 2 * MB)
          /\ io_end.write_bytes >= io_start.write_bytes =>
                disk_deltas[1].write_delta_mb
                  = Rat(io_end.write_bytes - io_start.write_bytes, 2 * MB)
    /\ net_deltas # <<>> =>
          /\ net_end.bytes_sent >= net_start.bytes_sent =>
                net_deltas[1].sent_delta_mb
                  = Rat(net_end.bytes_sent - net_start.bytes_sent, MB)
          /\ net_end.bytes_recv >= net_start.bytes_recv =>
                net_deltas[1].recv_delta_mb
                  = Rat(net_end.bytes_recv - net_start.bytes_recv, MB)

\* C4 (amended): for every window with end >= start the value compared
\* against the threshold is the byte delta of the whole window in MB,
\* (end - start) / 1024 / 1024, not divided by the length of the window:
\* MB per 2 seconds for disk, MB per 1 second for network.
C4_DeltaPerWindow ==
    /\ DiskWindowOver /\ io_start.avail /\ io_end.avail =>
          /\ disk_deltas # <<>>
          /\ io_end.read_bytes >= io_start.read_bytes =>
                disk_deltas[1].read_delta_mb
                  = Rat(io_end.read_bytes - io_start.read_bytes, MB)
          /\ io_end.write_bytes >= io_start.write_bytes =>
                disk_deltas[1].write_delta_mb
                  = Rat(io_end.write_bytes - io_start.write_bytes, MB)
    /\ NetWindowOver /\ net_start.avail /\ net_end.avail =>
          /\ net_deltas # <<>>
          /\ net_end.bytes_sent >= net_start.bytes_sent =>
                net_deltas[1].sent_delta_mb
                  = Rat(net_end.bytes_sent - net_start.bytes_sent, MB)
          /\ net_end.bytes_recv >= net_start.bytes_recv =>
                net_deltas[1].recv_delta_mb
                  = Rat(net_end.bytes_recv - net_start.bytes_recv, MB)

\* a disk window that read 100 MB in its 2 seconds: the compared value is
\* 100, where the rate is 50 MB per second
C4_Witness ==
    /\ NetWindowOver
    /\ io_start = DiskSample(0, 0)
    /\ io_end = DiskSample(100 * MB, 50 * MB)
    /\ disk_deltas[1].read_delta_mb = FromInt(100)
    /\ net_start.avail /\ net_end.avail
    /\ net_end.bytes_sent > net_start.bytes_sent

----------------------------------------------------------------------------
(* C5 *)

\* C5: threshold evaluation is strict for every metric: a disk or network
\* measurement equal to its threshold emits no indicator (unless the other
\* measurement of the window is over it), and a CPU reading equal to
\* cpu_threshold triggers no correlator pass and does not set
\* high_usage_detected.
C5_StrictThresholds ==
    /\ ( /\ DiskWindowOver /\ io_start.avail /\ io_end.avail
         /\ io_end.read_bytes - io_start.read_bytes <= disk_threshold * MB
         /\ io_end.write_bytes - io_start.write_bytes <= disk_threshold * MB )
       => ~InSeq("high_disk_io", secrets_indicators)
    /\ ( /\ NetWindowOver /\ net_start.avail /\ net_end.avail
         /\ net_end.bytes_sent - net_start.bytes_sent
              <= network_threshold * MB
         /\ net_end.bytes_recv - net_start.bytes_recv
              <= network_threshold * MB )
       => ~InSeq("high_network_io", secrets_indicators)
    /\ \A i \in 1..Len(cpu_readings) :
          cpu_readings[i] = cpu_threshold =>
              /\ \A j \in 1..Len(passes) : passes[j].trigger # i
              /\ i = Len(cpu_readings) => pc # "correlate"
    /\ ( /\ SamplingOver
         /\ \A i \in 1..Len(cpu_readings) : cpu_readings[i] <= cpu_threshold )
       => ~cpu_analysis.high_usage_detected

\* a finished run whose disk read delta, network sent delta and peak CPU
\* reading all equal their thresholds exactly
C5_Witness ==
    /\ pc = "done"
    /\ io_start.avail /\ io_end.avail
    /\ io_end.read_bytes - io_start.read_bytes = disk_threshold * MB
    /\ io_end.write_bytes - io_start.write_bytes <= disk_threshold * MB
    /\ net_start.avail /\ net_end.avail
    /\ net_end.bytes_sent - net_start.bytes_sent = network_threshold * MB
    /\ net_end.bytes_recv - net_start.bytes_recv <= network_threshold * MB
    /\ cpu_analysis.peak_cpu = cpu_threshold
    /\ report.secrets_indicators = <<>>
    /\ passes[1].trigger = 0

----------------------------------------------------------------------------
(* C6 *)

\* C6: for every pair of disk samples of the 2-second window the indicators
\* contain high_disk_io exactly when the read delta or the write delta, in
\* MB, is greater than disk_threshold; the pair (0,0) then (100MB,50MB) with
\* disk_threshold 50 gives the indicator.
C6_DiskIndicator ==
    /\ DiskWindowOver /\ io_start.avail /\ io_end.avail =>
          ( InSeq("high_disk_io", secrets_indicators)
            <=> \/ io_end.read_bytes - io_start.read_bytes
                     > disk_threshold * MB
                \/ io_end.write_bytes - io_start.write_bytes
                     > disk_threshold * MB )
    /\ ( /\ DiskWindowOver
         /\ io_start = DiskSample(0, 0)
         /\ io_end = DiskSample(100 * MB, 50 * MB)
         /\ disk_threshold = 50 )
       => InSeq("high_disk_io", secrets_indicators)
    /\ pc = "done" => report.secrets_indicators = secrets_indicators

\* the scenario of the test: (0,0) then (100MB,50MB), disk_threshold 50
C6_Witness ==
    /\ pc = "done"
    /\ io_start = DiskSample(0, 0)
    /\ io_end = DiskSample(100 * MB, 50 * MB)
    /\ disk_threshold = 50
    /\ InSeq("high_disk_io", report.secrets_indicators)

----------------------------------------------------------------------------
(* C7 *)

\* C7: for every pair of network samples of the 1-second window the
\* indicators contain high_network_io exactly when the sent delta or the
\* received delta, in MB, is greater than network_threshold; the pair (0,0)
\* then (20MB,15MB) with network_threshold 10 gives the indicator.
C7_NetworkIndicator ==
    /\ NetWindowOver /\ net_start.avail /\ net_end.avail =>
          ( InSeq("high_network_io", secrets_indicators)
            <=> \/ net_end.bytes_sent - net_start.bytes_sent
                     > network_threshold * MB
                \/ net_end.bytes_recv - net_start.bytes_recv
                     > network_threshold * MB )
    /\ ( /\ NetWindowOver
         /\ net_start = NetSample(0, 0)
         /\ net_end = NetSample(20 * MB, 15 * MB)
         /\ network_threshold = 10 )
       => InSeq("high_network_io", secrets_indicators)
    /\ ~NetWindowOver => ~InSeq("high_network_io", secrets_indicators)

\* the scenario of the test: (0,0) then (20MB,15MB), network_threshold 10
C7_Witness ==
    /\ pc = "done"
    /\ net_start = NetSample(0, 0)
    /\ net_end = NetSample(20 * MB, 15 * MB)
    /\ network_threshold = 10
    /\ InSeq("high_network_io", report.secrets_indicators)

----------------------------------------------------------------------------
(* C8 *)

\* C8: for every non-empty sequence of CPU readings a run collected,
\* peak_cpu is the maximum of the readings, and high_usage_detected is true
\* exactly when peak_cpu > cpu_threshold.
C8_PeakIsMax ==
    SamplingOver =>
        /\ cpu_readings # <<>>
        /\ cpu_analysis.readings = cpu_readings
        /\ \E i \in 1..Len(cpu_readings) :
              cpu_analysis.peak_cpu = cpu_readings[i]
        /\ \A i \in 1..Len(cpu_readings) :
              cpu_readings[i] <= cpu_analysis.peak_cpu
        /\ cpu_analysis.high_usage_detected
             <=> cpu_analysis.peak_cpu > cpu_threshold

\* a finished run whose peak is neither the first nor the last reading
C8_Witness ==
    /\ pc = "done"
    /\ Len(cpu_readings) = 3
    /\ cpu_readings[2] > cpu_readings[1]
    /\ cpu_readings[2] > cpu_readings[3]
    /\ report.cpu_analysis.peak_cpu = cpu_readings[2]
    /\ report.cpu_analysis.high_usage_detected

----------------------------------------------------------------------------
(* C9 *)

\* C9 (as claimed): a run with monitoring_duration = D >= 1 ends the
\* Sampling loop with exactly D readings.
C9_ExactlyDReadings ==
    (SamplingOver /\ monitoring_duration >= 1) =>
        Len(cpu_readings) = monitoring_duration

\* what C9 (amended) says of one state
C9_State ==
    monitoring_duration >= 1 =>
        /\ Len(cpu_readings) <= monitoring_duration
        /\ clock >= Len(cpu_readings) * CpuIntervalSeconds * TicksPerSecond
        /\ SamplingOver =>
              /\ Len(cpu_readings) >= 1
              /\ clock >= monitoring_duration * TicksPerSecond
              /\ HighReadings = <<>> =>
                    Len(cpu_readings) = monitoring_duration

\* C9 (amended): with monitoring_duration = D >= 1 and each measurement call
\* consuming one second, the Sampling loop terminates after at least 1 and
\* at most D readings, kept in the order taken; it ends with exactly D
\* readings when no reading exceeded cpu_threshold, and may end with fewer
\* otherwise, because every correlator pass a reading triggers consumes at
\* least 0.1 s of the monitoring window.
C9_AtMostDReadings ==
    /\ []C9_State
    /\ [][ \/ cpu_readings' = cpu_readings
           \/ /\ Len(cpu_readings') = Len(cpu_readings) + 1
              /\ SubSeq(cpu_readings', 1, Len(cpu_readings)) = cpu_readings
              /\ pc = "sample" ]_vars

\* a finished run of 3 seconds in which two readings triggered a pass and
\* all 3 readings were still taken
C9_Witness ==
    /\ pc = "done"
    /\ monitoring_duration = 3
    /\ Len(cpu_readings) = 3
    /\ Len(HighReadings) >= 2
    /\ report.cpu_analysis.readings = cpu_readings

----------------------------------------------------------------------------
(* C10 *)

PhaseNames ==
    {"Scanning", "Sampling", "Correlating", "Evaluating", "Assembling",
     "Done"}
CounterNames == {"cpu", "procs", "disk", "net"}

\* the phases the run entered, in order, but for the correlator pass
\* between Sampling and Evaluating
PhasesEntered ==
    SelectSeq(events, LAMBDA e : e \in PhaseNames /\ e # "Correlating")

\* the index at which the run entered a phase; past the end if it has not
EnteredAt(phase) ==
    IF \E i \in 1..Len(events) : events[i] = phase
    THEN CHOOSE i \in 1..Len(events) : events[i] = phase
    ELSE Len(events) + 1

\* the indices at which one of the counters `names` was sampled
SampledAt(names) == {i \in 1..Len(events) : events[i] \in names}

\* C10: a run passes through the phases in the fixed order Scanning,
\* Sampling, Evaluating (the disk window, then the network window, one
\* after the other), Assembling, Done: a phase starts only when the
\* previous one has finished, none is skipped or entered again, and no
\* counter is sampled once Assembling has begun.
C10_PhaseOrder ==
    /\ IsPrefix(PhasesEntered,
                <<"Scanning", "Sampling", "Evaluating", "Assembling",
                  "Done">>)
    /\ IsPrefix(SelectSeq(events, LAMBDA e : e \in {"disk", "net"}),
                <<"disk", "disk", "net", "net">>)
    /\ SampledAt(CounterNames) \subseteq 1..(EnteredAt("Assembling") - 1)
    /\ SampledAt({"cpu"})
         \subseteq (EnteredAt("Sampling") + 1)..(EnteredAt("Evaluating") - 1)
    /\ SampledAt({"disk", "net"})
         \subseteq (EnteredAt("Evaluating") + 1)..Len(events)
    /\ pc = "done" <=> (events # <<>> /\ events[Len(events)] = "Done")
    /\ pc = "assemble" <=>
          (events # <<>> /\ events[Len(events)] = "Assembling")
    /\ pc \in {"disk_start", "disk_end", "net_start", "net_end"} <=>
          (EnteredAt("Evaluating") <= Len(events)
           /\ EnteredAt("Assembling") > Len(events))
    /\ pc \in {"sample", "correlate"} =>
          (EnteredAt("Sampling") <= Len(events)
           /\ EnteredAt("Evaluating") > Len(events))

\* a finished run that entered all five phases, sampled the CPU more than
\* once and ran both windows
C10_Witness ==
    /\ pc = "done"
    /\ PhasesEntered
         = <<"Scanning", "Sampling", "Evaluating", "Assembling", "Done">>
    /\ Len(cpu_readings) >= 2
    /\ SelectSeq(events, LAMBDA e : e \in {"disk", "net"})
         = <<"disk", "disk", "net", "net">>

----------------------------------------------------------------------------
(* C11, C12: the rules of the recommendations; the assembler called twice *)

\* C11: the recommendations of every report follow four rules and nothing
\* else: the rollback advice is there exactly when the CPU analysis flags
\* high usage, the disk advice exactly when high_disk_io is an indicator,
\* the network advice exactly when high_network_io is one, the cleanup
\* advice exactly when more than 5 process readings were handed in (5
\* readings give none); no advice appears twice
C11_FourRules ==
    \A i \in 1..Len(reports) :
        LET recs == reports[i].recommendations
            Has(r) == \E k \in 1..Len(recs) : recs[k] = r
        IN  /\ Has("cpu_rollback") <=> cpu_analysis.high_usage_detected
            /\ Has("check_disk_io") <=>
                  \E k \in 1..Len(secrets_indicators) :
                      secrets_indicators[k] = "high_disk_io"
            /\ Has("monitor_network") <=>
                  \E k \in 1..Len(secrets_indicators) :
                      secrets_indicators[k] = "high_network_io"
            /\ Has("process_cleanup") <=> Len(processes) > 5
            /\ \A k \in 1..Len(recs) :
                  recs[k] \in {"cpu_rollback", "check_disk_io",
                               "monitor_network", "process_cleanup"}
            /\ \A k, l \in 1..Len(recs) : recs[k] = recs[l] => k = l

\* a report for exactly 5 process readings, high CPU usage and both
\* indicators: three recommendations, no cleanup advice
C11_Witness ==
    /\ reports # <<>>
    /\ Len(processes) = 5
    /\ reports[1].recommendations =
          <<"cpu_rollback", "check_disk_io", "monitor_network">>

\* C12: two runs of the report assembler on one detector and the same
\* injected results give reports that agree in every field but the
\* timestamp, and no run changes the results it was handed
C12_Idempotent ==
    /\ \A i, j \in 1..Len(reports) : reports[i] = reports[j]
    /\ \A i \in 1..Len(reports) :
          /\ reports[i].cpu_analysis = cpu_analysis
          /\ reports[i].augment_processes = processes
          /\ reports[i].secrets_indicators = secrets_indicators

----------------------------------------------------------------------------
(* C13, C14, C15, C16: interrupts, exit status, failing samplers *)

\* the phase the run entered last
LastPhase ==
    LET entered == SelectSeq(events, LAMBDA e : e \in PhaseNames)
    IN  IF entered = <<>> THEN "" ELSE entered[Len(entered)]

\* C13: a run interrupted by the user during Sampling after k >= 1
\* readings has emitted a partial report whose CPU analysis is computed
\* from exactly those k readings
C13_PartialReport ==
    ( /\ pc = "interrupted"
      /\ LastPhase = "Sampling"
      /\ Len(cpu_readings) >= 1 )
    => /\ Len(reports) = 1
       /\ report.cpu_analysis.readings = cpu_readings
       /\ report.cpu_analysis.peak_cpu = Max(cpu_readings)

\* C14: under both entry points the process exits with status 0 exactly
\* when the run has completed, and with a non-zero status when it was
\* interrupted or a fatal error such as a failed report-file write ended it
C14_ExitStatus ==
    \A e \in {"augment-fix detect", "augment_secret_detector.py"} :
        /\ pc = "done" => exit_code[e] = 0
        /\ pc = "interrupted" => exit_code[e] > 0
        /\ pc = "failed" /\ failure = "OSError" => exit_code[e] > 0

\* C15: no error raised by the CPU sampler or by a correlator pass ends
\* the run: a run never stops on such an error
C15_NoMetricFailureAborts ==
    ~( /\ pc = "failed"
       /\ failure \in {"cpu_percent", "TypeError"} )

\* C16: a disk counter that returns no data, or raises, at either sample
\* of its window yields no high_disk_io; the network window is still
\* sampled and evaluated and the run goes on to Assembling; a network
\* counter that returns no data or raises yields no high_network_io and
\* leaves a high_disk_io already emitted in place
C16_UnavailableCounter ==
    /\ [](DiskWindowOver /\ (~io_start.avail \/ ~io_end.avail)
            => \A k \in 1..Len(secrets_indicators) :
                  secrets_indicators[k] # "high_disk_io")
    /\ [](NetWindowOver /\ (~net_start.avail \/ ~net_end.avail)
            => \A k \in 1..Len(secrets_indicators) :
                  secrets_indicators[k] # "high_network_io")
    /\ [](NetWindowOver /\ net_start.avail /\ net_end.avail
            => ( (\E k \in 1..Len(secrets_indicators) :
                     secrets_indicators[k] = "high_network_io")
                 <=> \/ net_end.bytes_sent - net_start.bytes_sent
                          > network_threshold * MB
                     \/ net_end.bytes_recv - net_start.bytes_recv
                          > network_threshold * MB ))
    /\ [][ /\ pc \in {"disk_start", "disk_end"}
              => pc' \in {"disk_end", "net_start", "interrupted"}
           /\ pc \in {"net_start", "net_end"}
              => pc' \in {"net_end", "assemble", "interrupted"}
           /\ pc \in {"net_start", "net_end"}
              => \A k \in 1..Len(secrets_indicators) :
                    /\ k <= Len(secrets_indicators')
                    /\ secrets_indicators'[k] = secrets_indicators[k] ]_vars

\* a finished run whose second disk snapshot was missing while the network
\* window found traffic above the threshold
C16_Witness ==
    /\ pc = "done"
    /\ io_start.avail
    /\ ~io_end.avail
    /\ report.secrets_indicators = <<"high_network_io">>

----------------------------------------------------------------------------
(* C17, C18, C19: one correlator pass *)

\* a call on the process raised NoSuchProcess or AccessDenied before its
\* reading was complete
Vanished(proc) ==
    proc.gone \in {"at_prime", "at_name", "at_cpu", "at_memory",
                   "at_name_again"}

\* the lowered name contains 'augment', 'vscode' or 'code'
NameMatches(name) ==
    \/ Contains(Lower(name), <<"a", "u", "g", "m", "e", "n", "t">>)
    \/ Contains(Lower(name), <<"v", "s", "c", "o", "d", "e">>)
    \/ Contains(Lower(name), <<"c", "o", "d", "e">>)

\* how many readings of the pass carry the pid
ReadingsOf(pid) ==
    Cardinality({k \in 1..Len(pass_outcome.result) :
                    pass_outcome.result[k].pid = pid})

\* C17: a process that ends or denies access between its enumeration and
\* its reading, in the priming loop or the reading loop, has no reading in
\* the output and does not end the pass: the pass ends as it does without
\* that process, and every other matching process of the enumeration has
\* exactly one reading
C17_VanishedOmitted ==
    pc = "pass_done" =>
        /\ pass_outcome.raised => cpu_count = 0
        /\ pass_outcome =
              AnalyzePass(SelectSeq(pass_table, LAMBDA p : ~Vanished(p)),
                          cpu_count)
        /\ ~pass_outcome.raised =>
              \A i \in 1..Len(pass_table) :
                  /\ Vanished(pass_table[i])
                        => ReadingsOf(pass_table[i].pid) = 0
                  /\ ~Vanished(pass_table[i])
                     /\ NameMatches(pass_table[i].name)
                        => ReadingsOf(pass_table[i].pid) = 1

\* augment-node ends at its cpu_percent() call; code-insiders, listed
\* after it, is still read
C17_Witness ==
    /\ pc = "pass_done"
    /\ Len(pass_table) = 2
    /\ pass_table[1].gone = "at_cpu"
    /\ NameMatches(pass_table[1].name)
    /\ pass_table[2].gone = "no"
    /\ ~pass_outcome.raised
    /\ Len(pass_outcome.result) = 1
    /\ pass_outcome.result[1].pid = pass_table[2].pid

\* the live processes of the enumeration whose name matches, in order
LiveMatching ==
    SelectSeq(pass_table, LAMBDA p : ~Vanished(p) /\ NameMatches(p.name))

\* C18: a pass that returns, returns one reading (pid, name, cpu_percent,
\* memory_mb) for each enumerated live process whose name contains, in any
\* letter case, 'augment', 'vscode' or 'code', in enumeration order and
\* whatever its CPU reading; a process whose name contains none of them is
\* never in the output
C18_OneReadingPerMatch ==
    pc = "pass_done" /\ ~pass_outcome.raised =>
        /\ Len(pass_outcome.result) = Len(LiveMatching)
        /\ \A i \in 1..Len(LiveMatching) :
              pass_outcome.result[i] =
                  [pid |-> LiveMatching[i].pid,
                   name |-> LiveMatching[i].name,
                   cpu_percent |-> LiveMatching[i].cpu,
                   memory_mb |-> Rat(LiveMatching[i].rss, 1024 * 1024)]
        /\ \A i \in 1..Len(pass_table) :
              ~NameMatches(pass_table[i].name)
                  => ReadingsOf(pass_table[i].pid) = 0

\* firefox is dropped; Code, written with a capital and at 10 % CPU on a
\* host of 8 cores (not above 80 / 8), is reported
C18_Witness ==
    /\ pc = "pass_done"
    /\ cpu_count = 8
    /\ Len(pass_table) = 2
    /\ pass_table[1].name = S_firefox
    /\ pass_table[2].name = S_Code
    /\ pass_outcome.result =
          <<[pid |-> 12346, name |-> S_Code, cpu_percent |-> 10,
             memory_mb |-> <<32, 1>>]>>
    /\ pass_outcome.high_cpu = <<>>

\* C19: whatever psutil.cpu_count() reports, computing 80 / cores never
\* makes the pass fail, and a matching process is flagged as a high-CPU
\* process exactly when its cpu_percent is greater than 80 / cores
C19_NormalizedThreshold ==
    pc = "pass_done" =>
        /\ ~pass_outcome.raised
        /\ \A i \in 1..Len(pass_table) :
              pass_table[i].gone = "no" /\ NameMatches(pass_table[i].name)
                  => ( (\E k \in 1..Len(pass_outcome.high_cpu) :
                           pass_outcome.high_cpu[k] = pass_table[i].pid)
                       <=> pass_table[i].cpu * cpu_count > 80 )

----------------------------------------------------------------------------
(* C20: scanning *)

\* a directory whose name contains augment, Augment or AUGMENT
IsAugmentDir(entry) ==
    /\ entry.is_dir
    /\ \/ Contains(entry.name, <<"a", "u", "g", "m", "e", "n", "t">>)
       \/ Contains(entry.name, <<"A", "u", "g", "m", "e", "n", "t">>)
       \/ Contains(entry.name, <<"A", "U", "G", "M", "E", "N", "T">>)

\* C20: the scan never fails the run: a root that does not exist is
\* skipped with a warning, every root that exists is scanned whatever
\* roots are missing before it, a scan that finds nothing returns the
\* empty list and reports "not found", and Sampling follows Scanning
C20_ScanNeverFails ==
    /\ pc \in {"idle", "scan"} <=> Len(events) < 2
    /\ Len(events) >= 2 =>
          /\ events[1] = "Scanning"
          /\ events[2] = "Sampling"
          /\ \A d \in 1..Len(fs) :
                IF fs[d].exists
                THEN \A i \in 1..Len(fs[d].entries) :
                        IsAugmentDir(fs[d].entries[i])
                        => \E k \in 1..Len(augment_dirs) :
                              augment_dirs[k] =
                                  [root |-> fs[d].path,
                                   name |-> fs[d].entries[i].name]
                ELSE \E k \in 1..Len(scan_log) :
                        scan_log[k] = [line |-> "directory_not_found",
                                       what |-> fs[d].path]
          /\ (\A d \in 1..Len(fs) :
                  fs[d].exists =>
                      \A i \in 1..Len(fs[d].entries) :
                          ~IsAugmentDir(fs[d].entries[i]))
             => /\ augment_dirs = <<>>
                /\ scan_log[Len(scan_log)].line = "no_extensions_found"

\* the root in the middle does not exist; the extension in the root after
\* it is found and the run is in Sampling
C20_Witness ==
    /\ pc = "sample"
    /\ Len(fs) = 3
    /\ ~fs[2].exists
    /\ augment_dirs = <<[root |-> fs[3].path, name |-> S_pub_augment]>>
    /\ scan_log[2] = [line |-> "directory_not_found", what |-> fs[2].path]

----------------------------------------------------------------------------
(* C21 *)

\* the host is healthy for the whole run: no process that stays to be read
\* has a matching name, no reading is above cpu_threshold, and no delta of
\* a window with both snapshots is above its threshold
NoLiveMatch ==
    \A i \in 1..Len(pass_table) :
        Vanished(pass_table[i]) \/ ~NameMatches(pass_table[i].name)
NoHighReading ==
    \A i \in 1..Len(cpu_readings) : cpu_readings[i] <= cpu_threshold
QuietDisk ==
    io_start.avail /\ io_end.avail =>
        /\ io_end.read_bytes - io_start.read_bytes <= disk_threshold * MB
        /\ io_end.write_bytes - io_start.write_bytes <= disk_threshold * MB
QuietNet ==
    net_start.avail /\ net_end.avail =>
        /\ net_end.bytes_sent - net_start.bytes_sent
              <= network_threshold * MB
        /\ net_end.bytes_recv - net_start.bytes_recv
              <= network_threshold * MB

\* C21: a run in which no live process matches the keywords, no CPU reading
\* exceeds cpu_threshold and neither window exceeds its threshold ends with
\* a report whose process list, indicators and recommendations are empty.
C21_HealthyRun ==
    pc = "done" /\ NoLiveMatch /\ NoHighReading /\ QuietDisk /\ QuietNet
    => /\ report.augment_processes = <<>>
       /\ report.secrets_indicators = <<>>
       /\ report.recommendations = <<>>

\* a healthy run is over: a reading at the threshold, a matching process
\* that ended before it was read, both windows sampled and at the threshold
C21_Witness ==
    /\ pc = "done" /\ NoLiveMatch /\ NoHighReading
    /\ Len(pass_table) > 1
    /\ cpu_readings[1] = cpu_threshold
    /\ io_start.avail /\ io_end.avail
    /\ io_end.read_bytes - io_start.read_bytes = disk_threshold * MB
    /\ net_start.avail /\ net_end.avail
    /\ net_end.bytes_sent - net_start.bytes_sent = network_threshold * MB
    /\ QuietDisk /\ QuietNet
    /\ report.recommendations = <<>>

----------------------------------------------------------------------------
(* C22 *)

\* C22: every completed run leaves a report file of its own: after n runs
\* there are n report files, one for each run and none overwritten, also
\* when two runs end within the same second.
C22_OneFilePerRun ==
    /\ Cardinality(report_files) = Len(reports)
    /\ \A k \in 1..Len(reports) : \E f \in report_files : f.run = k

----------------------------------------------------------------------------
(* C28 *)

\* C28: monitor_cpu_usage returns a CpuAnalysis for every
\* monitoring_duration, zero and negative values included: the sampling
\* phase never ends the run with a ZeroDivisionError.
C28_AlwaysAnalysis ==
    /\ failure # "ZeroDivisionError"
    /\ SamplingOver => cpu_analysis = CpuAnalysis(cpu_readings, cpu_threshold)

----------------------------------------------------------------------------
(* C29 *)

NoDuplicates(s) == \A i, j \in 1..Len(s) : s[i] = s[j] => i = j

\* C29: self.augment_dirs and the augment_extensions of every report list
\* each extension directory once, after any number of scans on the same
\* detector and also for a directory whose name matches several patterns.
C29_NoDuplicateDirs ==
    /\ NoDuplicates(augment_dirs)
    /\ \A k \in 1..Len(reports) :
          NoDuplicates(reports[k].augment_extensions)

----------------------------------------------------------------------------
(* C23 .. C26: the version manager *)

LastCall == vm.calls[Len(vm.calls)]
OnlyLocking ==
    \A i \in 1..Len(vm.calls) : vm.calls[i].op \in {"lock", "unlock"}
Successful == {i \in 1..Len(vm.calls) : vm.calls[i].result}
LastSuccessfulOp ==
    IF Successful = {} THEN "none"
    ELSE vm.calls[CHOOSE i \in Successful : \A j \in Successful : j <= i].op

\* C23: a successful lock leaves the sentinel .version_locked present and
\* the directory read-only, a successful unlock leaves it writable with the
\* sentinel absent (so lock then unlock gives the unlocked state back), and
\* after any sequence of lock and unlock calls the sentinel is present
\* exactly when the last successful call was a lock.
C23_LockUnlock ==
    /\ vm.calls # <<>> /\ LastCall = [op |-> "lock", result |-> TRUE]
       => vm.ext.tree.sentinel /\ ~vm.ext.tree.writable
    /\ vm.calls # <<>> /\ LastCall = [op |-> "unlock", result |-> TRUE]
       => ~vm.ext.tree.sentinel /\ vm.ext.tree.writable
    /\ OnlyLocking /\ vm.ext.exists
       => (vm.ext.tree.sentinel <=> LastSuccessfulOp = "lock")

\* the history version_config.json holds; none when it cannot be parsed
Persisted == IF vm.config.readable THEN vm.config.history ELSE <<>>

\* C24 as claimed: after any sequence of backup, rollback, lock and unlock
\* calls the persisted history is the last 50 of the recorded actions (all
\* of them while there are fewer), in order: an update_config call drops
\* the oldest entry beyond 50 and nothing else.
C24_LastFifty ==
    /\ Len(Persisted) <= HistoryLimit
    /\ Len(Persisted) =
          IF Len(vm.recorded) <= HistoryLimit THEN Len(vm.recorded)
          ELSE HistoryLimit
    /\ \A i \in 1..Len(Persisted) :
          Persisted[i] = vm.recorded[Len(vm.recorded) - Len(Persisted) + i]

\* C24: after any sequence of backup, rollback, lock and unlock calls the
\* persisted history has at most 50 entries, and they are the most recent
\* recorded actions in the order they happened; they may be fewer than 50
\* of many, since a config file that cannot be parsed is started afresh.
C24_BoundedRecent ==
    /\ Len(Persisted) <= HistoryLimit
    /\ Len(Persisted) <= Len(vm.recorded)
    /\ \A i \in 1..Len(Persisted) :
          Persisted[i] = vm.recorded[Len(vm.recorded) - Len(Persisted) + i]

\* a call recorded its action in a full history: the oldest entry is gone
C24_Witness ==
    /\ vm.calls # <<>>
    /\ Len(Persisted) = HistoryLimit
    /\ Len(vm.recorded) > HistoryLimit
    /\ Persisted[HistoryLimit].call = Len(vm.calls)

\* the step is a rollback_to_version call
RollbackCall ==
    /\ Len(vm'.calls) = Len(vm.calls) + 1
    /\ vm'.calls[Len(vm'.calls)].op = "rollback"

\* C25: rollback_to_version removes or replaces the current extension only
\* after a backup of it was made in the same call; when that backup fails
\* the extension stays.
C25_BackupBeforeRemoval ==
    [][RollbackCall /\ vm'.ext # vm.ext
       => \E b \in vm'.backups \ vm.backups : b.tree = vm.ext.tree]_vars

\* C26: whenever rollback_to_version returns False (backup not found, no
\* current extension, an error while removing or restoring) the current
\* extension directory is still there with the content it had.
C26_FailedRollbackChangesNothing ==
    [][RollbackCall /\ ~vm'.calls[Len(vm'.calls)].result
       => vm'.ext = vm.ext]_vars

----------------------------------------------------------------------------
(* C27 *)

\* C27: for every method (auto, snap, apt, flatpak) a chat-log backup has
\* run to completion before any package-manager command that updates the
\* editor is invoked, and no such command is invoked when the backup step
\* raised.
C27_BackupFirst ==
    /\ \A i \in 1..Len(up.log) :
          up.log[i] \in UpdateCommands
          => \E j \in 1..(i - 1) : up.log[j] = "backup_completed"
    /\ \A i, j \in 1..Len(up.log) :
          up.log[i] = "backup_raised" => up.log[j] \notin UpdateCommands
    /\ up.result = "raised" => up.log[Len(up.log)] = "backup_raised"

\* the auto method found snap: two backups were completed, then the
\* refresh was run and succeeded
C27_Witness ==
    /\ up.pc = "returned" /\ up.result = "True"
    /\ up.log = <<"backup_completed", SnapList, "backup_completed",
                  SnapRefresh>>

----------------------------------------------------------------------------
(* C30 *)

\* the actions whose operation reports success or failure
Reporting ==
    {"backup", "rollback", "lock", "unlock", "update", "restore-logs",
     "interactive-restore"}

\* C30: for every version and vscode sub-action the handler returns a
\* non-zero status whenever the operation reports failure (a falsy result)
\* or no action was given, and 0 only when the operation succeeded.
C30_ExitCodes ==
    cli.pc = "exited" /\ cli.command \in {"version", "vscode"}
    => /\ cli.action = "" => cli.exit # 0
       /\ cli.action \in Reporting /\ Falsy(cli.result) => cli.exit # 0
       /\ cli.action \in Reporting /\ cli.exit = 0 => Truthy(cli.result)

====
